---- MODULE Spec2Model ----
(***************************************************************************)
(* go-pkgz/lcw: the list-based retention engine (internal/cache            *)
(* LoadingCache) and the LruCache wrapper that adds the loader, the        *)
(* statistics counters and the byte-size accounting on top of it.          *)
(*                                                                         *)
(* The engine holds its mutex for the whole of every public method, so     *)
(* each engine method is one step.  LruCache methods hold no lock of their *)
(* own: they are split at every point where they leave the engine or touch *)
(* currentSize / the counters with an atomic operation.                    *)
(***************************************************************************)
EXTENDS Integers, Sequences, FiniteSets, Bags, TLC

\* ---------------------------------------------------------------- bounds
MaxTime == 2      \* the clock runs 0..MaxTime
MaxCalls == 3     \* LruCache.Get calls per behaviour
MaxValLen == 2    \* values are strings of length 1..MaxValLen
MaxOpts == 2      \* options passed to one NewLruCache call

\* ------------------------------------------------------------- constants
\* noEvictionTTL, "very long ttl to prevent eviction" (10 years, in hours)
noEvictionTTL == 87600
\* NewLruCache: the default of maxKeys
defaultMaxKeys == 1000

Keys == {"a", "bb", "ccc"}
Procs == {"p1", "p2"}
\* the keys and the MaxKeys option of the caches that purge at twice MaxKeys
V2Keys == {"a", "bb", "ccc", "dddd"}
V2MaxKeys == 2
\* nil as a Value (no Sizer), as a key and as an error
Nil == [sizer |-> FALSE, len |-> 0]
NoKey == ""
NilErr == "nil"
\* url.Values: each parameter's first value, as a sequence of characters
\* (empty when the parameter is absent)
Params == {"max_val_size", "max_key_size", "max_keys", "max_cache_size", "ttl", "foo"}
NoQuery == [param \in Params |-> <<>>]
\* new(multierror.Error), before optionsFromQuery has returned
NoErrs == [returned |-> FALSE, Errors |-> <<>>]

\* A value is a string: a sizedString of some length, which implements Sizer
\* (Size() = len), or a plain string, which does not (its length is read by
\* nothing, so one plain string stands for all).
Values ==
  [sizer : {TRUE}, len : 1..MaxValLen] \cup [sizer : {FALSE}, len : {MaxValLen}]

IsSizer(v) == v.sizer
Size(v) == v.len

VARIABLES
  \* --- internal/cache LoadingCache
  ttl, maxKeys, isLRU, onEvicted, purgeEvery,   \* options, fixed at construction
  data,        \* the keys of map[string]*list.Element
  evictList,   \* the list, front first, of cacheItem {key, value, expiresAt}
  done,        \* the done channel: "open" or "closed"
  purger,      \* the deleteExpired goroutine: "none", "running", "exited"
  panicked,    \* the process died of a runtime panic
  now,         \* the clock
  evicted,     \* the bag of onEvicted(key, value) calls made by the latest step
  last,        \* the latest engine call and what it returned
  \* --- LruCache
  maxKeySize, maxValueSize, maxCacheSize,
  opts,        \* the options NewLruCache is called with, until it has run
  newErr,      \* the error NewLruCache returned
  query,       \* the query of the URI given to New
  errs,        \* optionsFromQuery: whether it has returned, and its *multierror.Error
  \* --- caches that share an event bus
  nodes,       \* per cache: the order list and the map of its backend
  calledKeys,  \* mockPubSub.calledKeys
  fns,         \* the goroutines started by mockPubSub.Publish that have not run yet
  evictions,   \* evictions and deletes not made in reaction to a bus message
  busDeletes,  \* deletes made by onBusEvent
  \* --- ExpirableCache
  keysStorage, \* ExpirableCache.keysStorage
  backend,     \* the items of its ristretto cache, each with its expiration
  \* --- package cache, loadingCacheImpl
  allowError,  \* loadingCacheImpl.allowError
  heap,        \* the cacheItems allocated so far; a *cacheItem is an index
  implData,    \* loadingCacheImpl.data: key -> *cacheItem
  stat,        \* loadingCacheImpl.stat
  gets,        \* per goroutine: its position in Get and Get's local variables
  loaderCalls, \* per key: the calls of a loader made for it
  results,     \* per key: what the Get calls for it returned, and how they were counted
  disturbed,   \* the keys that were invalidated or have expired
  \* --- Nop
  nopLog,      \* the calls made on the Nop cache, each with what it returned
  coldCalls,   \* the calls of the loaders given to Nop.Get
  \* --- v2, the map-based engine
  v2data,      \* LoadingCache.data: key -> *cacheItem
  \* --- ExpirableCache with concurrent callers
  ranging,     \* per goroutine: the loop over keysStorage it is in
  \* --- the list embedded in the cacheItems
  list,        \* the cacheItems by address, the sentinel root among them, and len
  Hits, Misses, Errors, currentSize,
  pc, lkey, ldata, lerr,  \* per goroutine in LruCache: position, key, data, err
  held,        \* per Get: the value the list held for key at the lookup
  loaded,      \* per Get: the value its loader returned
  loads,       \* per Get: the calls of its loader
  calls        \* LruCache.Get calls started

engineOpts == <<ttl, maxKeys, isLRU, onEvicted, purgeEvery>>
busVars == <<nodes, calledKeys, fns, evictions, busDeletes>>
expVars == <<keysStorage, backend>>
implVars == <<allowError, heap, implData, stat, gets, loaderCalls, results, disturbed>>
nopVars == <<nopLog, coldCalls>>
moreVars == <<v2data, ranging, list>>
auxVars == <<expVars, implVars, nopVars, moreVars>>
lruOpts == <<maxKeySize, maxValueSize, maxCacheSize, opts, newErr, query, errs, busVars,
             auxVars>>
stats == <<Hits, Misses, Errors>>
locals == <<pc, lkey, ldata, lerr, held, loaded, loads>>
vars == <<engineOpts, data, evictList, done, purger, panicked, now, evicted, last,
          lruOpts, stats, currentSize, locals, calls>>

\* ------------------------------------------------------- container/list
Front(l) == l[1]
Back(l) == l[Len(l)]
RemoveAt(l, i) == SubSeq(l, 1, i - 1) \o SubSeq(l, i + 1, Len(l))
PushFront(l, item) == <<item>> \o l
MoveToFront(l, i) == <<l[i]>> \o RemoveAt(l, i)

\* ------------------------------------------------------------ Go maps
\* delete(c.data, key)
MapDelete(m, key) == [k \in DOMAIN m \ {key} |-> m[k]]

\* The orders in which `range c.data` can visit the keys of S
RECURSIVE RangeOrders(_)
RangeOrders(S) ==
  IF S = {} THEN {<<>>}
  ELSE UNION {{<<k>> \o o : o \in RangeOrders(S \ {k})} : k \in S}

\* data[key]: the list element the map holds for key
Elem(c, key) == CHOOSE i \in 1..Len(c.list) : c.list[i].key = key

\* No event bus: nothing is published and no cache listens
NoBus ==
  /\ nodes = <<>> /\ calledKeys = <<>> /\ fns = EmptyBag
  /\ evictions = 0 /\ busDeletes = 0

\* No ExpirableCache
NoExp == keysStorage = {} /\ backend = {}

\* No loadingCacheImpl
NoImpl ==
  /\ allowError = FALSE /\ heap = <<>> /\ implData = <<>> /\ stat = <<>>
  /\ gets = <<>> /\ loaderCalls = <<>> /\ results = <<>> /\ disturbed = {}

\* No Nop cache
NoNop == nopLog = <<>> /\ coldCalls = 0

\* No goroutine is in a loop over keysStorage
NoRange == [op |-> "none", fn |-> {}, seen |-> {}]
NoRanging == ranging = [p \in Procs |-> NoRange]

\* No embedded list
NoList == list = [items |-> <<>>, len |-> 0]

\* No map-based engine
NoMore == v2data = <<>> /\ NoRanging /\ NoList

NoAux == NoExp /\ NoImpl /\ NoNop /\ NoMore

\* Mutant of Expired: the comparison the wrong way round
Expired_inverted(item, t) == t <= item.expiresAt

\* time.Now().After(expiresAt)
Expired(item, t) == t > item.expiresAt

\* The engine as the methods see it: the list, the map and the callbacks made.
Engine == [list |-> evictList, data |-> data, ev |-> EmptyBag]

\* ------------------------------------------------ engine: private helpers
\* Mutant of removeElement: the key stays in the map
removeElement_keepsMapEntry(c, e) ==
  [list |-> RemoveAt(c.list, e),
   data |-> c.data,
   ev   |-> IF onEvicted
            THEN c.ev (+) SetToBag({[key |-> c.list[e].key, value |-> c.list[e].value]})
            ELSE c.ev]

\* removeElement: unlink e, delete its key from the map, report it
removeElement(c, e) ==
  [list |-> RemoveAt(c.list, e),
   data |-> c.data \ {c.list[e].key},
   ev   |-> IF onEvicted
            THEN c.ev (+) SetToBag({[key |-> c.list[e].key, value |-> c.list[e].value]})
            ELSE c.ev]

\* removeOldest: remove the back element, if there is one
removeOldest(c) ==
  IF Len(c.list) # 0 THEN removeElement(c, Len(c.list)) ELSE c

\* keys: from the back (oldest) to the front (newest)
keys(c) == [i \in 1..Len(c.list) |-> c.list[Len(c.list) + 1 - i].key]

\* deleteExpired: walk keys(); remove what is expired; when not LRU stop at
\* the first entry that is not
RECURSIVE deleteExpiredFrom(_, _, _)
deleteExpiredFrom(c, ks, i) ==
  IF i > Len(ks) THEN c
  ELSE IF Expired(c.list[Elem(c, ks[i])], now)
       THEN deleteExpiredFrom(removeElement(c, Elem(c, ks[i])), ks, i + 1)
       ELSE IF ~isLRU THEN c
            ELSE deleteExpiredFrom(c, ks, i + 1)

\* Mutant of deleteExpired: the walk stops at the first entry that is not
\* expired, in LRU mode too
deleteExpired_stopsAtFirstLive(c) ==
  LET ks == keys(c)
      live == {i \in 1..Len(ks) : ~Expired(c.list[Elem(c, ks[i])], now)}
      stop == IF live = {} THEN Len(ks) + 1
              ELSE CHOOSE i \in live : \A j \in live : i <= j
      RECURSIVE removeKeys(_, _)
      removeKeys(cc, S) ==
        IF S = {} THEN cc
        ELSE LET key == CHOOSE k \in S : TRUE
             IN removeKeys(removeElement(cc, Elem(cc, key)), S \ {key})
  IN removeKeys(c, {ks[i] : i \in 1..(stop - 1)})

\* Mutant of deleteExpired: a sweep removes the oldest entry only
deleteExpired_oldestOnly(c) ==
  IF c.list # <<>> /\ Expired(Back(c.list), now)
  THEN removeElement(c, Len(c.list))
  ELSE c

deleteExpired(c) == deleteExpiredFrom(c, keys(c), 1)

\* ------------------------------------------------- engine: public methods
\* Each returns the engine after the call (and, for reads, what is returned).

\* Mutant of Set: the size is verified before the new item is added
Set_checksBeforeInsert(c, key, value) ==
  IF key \in c.data
  THEN LET e == Elem(c, key)
           l == MoveToFront(c.list, e)
       IN [c EXCEPT !.list = [l EXCEPT ![1].value = value,
                                       ![1].expiresAt = now + ttl]]
  ELSE LET ent == [key |-> key, value |-> value, expiresAt |-> now + ttl]
           c1 == IF maxKeys > 0 /\ Cardinality(c.data) > maxKeys
                 THEN removeOldest(c)
                 ELSE c
       IN [c1 EXCEPT !.list = PushFront(c1.list, ent),
                     !.data = c1.data \cup {key}]

\* Mutant of Set: an existing item is refreshed where it is in the list
Set_updatesInPlace(c, key, value) ==
  IF key \in c.data
  THEN LET e == Elem(c, key)
       IN [c EXCEPT !.list = [c.list EXCEPT ![e].value = value,
                                            ![e].expiresAt = now + ttl]]
  ELSE LET ent == [key |-> key, value |-> value, expiresAt |-> now + ttl]
           c1 == [c EXCEPT !.list = PushFront(c.list, ent),
                           !.data = c.data \cup {key}]
       IN IF maxKeys > 0 /\ Cardinality(c1.data) > maxKeys
          THEN removeOldest(c1)
          ELSE c1

\* Mutant of Set: an existing item is moved and gets the value but keeps its
\* expiration
Set_keepsExpiry(c, key, value) ==
  IF key \in c.data
  THEN LET e == Elem(c, key)
           l == MoveToFront(c.list, e)
       IN [c EXCEPT !.list = [l EXCEPT ![1].value = value]]
  ELSE LET ent == [key |-> key, value |-> value, expiresAt |-> now + ttl]
           c1 == [c EXCEPT !.list = PushFront(c.list, ent),
                           !.data = c.data \cup {key}]
       IN IF maxKeys > 0 /\ Cardinality(c1.data) > maxKeys
          THEN removeOldest(c1)
          ELSE c1

\* Mutant of Set: an existing item is moved and refreshed but keeps its value
Set_keepsValue(c, key, value) ==
  IF key \in c.data
  THEN LET e == Elem(c, key)
           l == MoveToFront(c.list, e)
       IN [c EXCEPT !.list = [l EXCEPT ![1].expiresAt = now + ttl]]
  ELSE LET ent == [key |-> key, value |-> value, expiresAt |-> now + ttl]
           c1 == [c EXCEPT !.list = PushFront(c.list, ent),
                           !.data = c.data \cup {key}]
       IN IF maxKeys > 0 /\ Cardinality(c1.data) > maxKeys
          THEN removeOldest(c1)
          ELSE c1

Set(c, key, value) ==
  IF key \in c.data
  THEN LET e == Elem(c, key)
           l == MoveToFront(c.list, e)
       IN [c EXCEPT !.list = [l EXCEPT ![1].value = value,
                                       ![1].expiresAt = now + ttl]]
  ELSE LET ent == [key |-> key, value |-> value, expiresAt |-> now + ttl]
           c1 == [c EXCEPT !.list = PushFront(c.list, ent),
                           !.data = c.data \cup {key}]
       IN IF maxKeys > 0 /\ Cardinality(c1.data) > maxKeys
          THEN removeOldest(c1)
          ELSE c1

\* Mutant of Get: an expired item is removed by the read that finds it
Get_removesExpired(c, key) ==
  IF key \in c.data
  THEN LET e == Elem(c, key) IN
       IF Expired(c.list[e], now)
       THEN [c |-> removeElement(c, e), val |-> Nil, ok |-> FALSE]
       ELSE [c |-> IF isLRU THEN [c EXCEPT !.list = MoveToFront(c.list, e)] ELSE c,
             val |-> c.list[e].value, ok |-> TRUE]
  ELSE [c |-> c, val |-> Nil, ok |-> FALSE]

Get(c, key) ==
  IF key \in c.data
  THEN LET e == Elem(c, key) IN
       IF Expired(c.list[e], now)
       THEN [c |-> c, val |-> Nil, ok |-> FALSE]
       ELSE [c |-> IF isLRU THEN [c EXCEPT !.list = MoveToFront(c.list, e)] ELSE c,
             val |-> c.list[e].value, ok |-> TRUE]
  ELSE [c |-> c, val |-> Nil, ok |-> FALSE]

\* Mutant of Peek: in LRU mode the entry that is read is moved to the front
Peek_movesToFront(c, key) ==
  IF key \in c.data
  THEN LET e == Elem(c, key) IN
       IF Expired(c.list[e], now)
       THEN [c |-> c, val |-> Nil, ok |-> FALSE]
       ELSE [c |-> IF isLRU THEN [c EXCEPT !.list = MoveToFront(c.list, e)] ELSE c,
             val |-> c.list[e].value, ok |-> TRUE]
  ELSE [c |-> c, val |-> Nil, ok |-> FALSE]

Peek(c, key) ==
  IF key \in c.data
  THEN LET e == Elem(c, key) IN
       IF Expired(c.list[e], now)
       THEN [c |-> c, val |-> Nil, ok |-> FALSE]
       ELSE [c |-> c, val |-> c.list[e].value, ok |-> TRUE]
  ELSE [c |-> c, val |-> Nil, ok |-> FALSE]

Invalidate(c, key) ==
  IF key \in c.data THEN removeElement(c, Elem(c, key)) ELSE c

\* A range over the map visits its keys in an unspecified order.  The calls
\* of onEvicted are kept as a bag, and the list and the map that remain do not
\* depend on the order of the removals, so one order stands for all.
RECURSIVE removeAll(_, _)
removeAll(c, S) ==
  IF S = {} THEN c
  ELSE LET key == CHOOSE k \in S : TRUE
       IN removeAll(removeElement(c, Elem(c, key)), S \ {key})

\* Mutant of InvalidateFn: the loop stops after the first removal
InvalidateFn_firstOnly(c, fn) ==
  LET S == {key \in c.data : key \in fn}
  IN IF S = {} THEN c ELSE removeElement(c, Elem(c, CHOOSE k \in S : TRUE))

\* InvalidateFn: fn is given by the set of keys it is true of
InvalidateFn(c, fn) == removeAll(c, {key \in c.data : key \in fn})

RemoveOldest(c) == removeOldest(c)

\* Purge: report and delete every map entry, then re-initialise the list
RECURSIVE purgeAll(_, _)
purgeAll(c, S) ==
  IF S = {} THEN c
  ELSE LET key == CHOOSE k \in S : TRUE
       IN purgeAll([c EXCEPT
                      !.ev = IF onEvicted
                             THEN c.ev (+) SetToBag({[key |-> key,
                                    value |-> c.list[Elem(c, key)].value]})
                             ELSE c.ev,
                      !.data = c.data \ {key}],
                   S \ {key})

\* Mutant of Purge: the entry at the front of the list is kept
Purge_keepsFront(c) ==
  IF c.list = <<>> THEN c ELSE removeAll(c, c.data \ {Front(c.list).key})

\* Mutant of Purge: the map and the list are cleared without the callbacks
Purge_noCallback(c) == [list |-> <<>>, data |-> {}, ev |-> c.ev]

Purge(c) == [purgeAll(c, c.data) EXCEPT !.list = <<>>]

DeleteExpired(c) == deleteExpired(c)

ItemCount(c) == Len(c.list)

\* Close: close(c.done); closing a closed channel panics
Close(d) ==
  IF d = "closed" THEN [done |-> "closed", panic |-> TRUE]
  ELSE [done |-> "closed", panic |-> FALSE]

\* ------------------------------------------------------------ construction
\* NewLoadingCache: the purger goroutine is started for a cache with a TTL
\* and maxKeys or purgeEvery set
PurgerStarted(t, mk, pe) == t # noEvictionTTL /\ (mk > 0 \/ pe > 0)

NoCall == [op |-> "none", key |-> NoKey, val |-> Nil, ok |-> FALSE]

NewLoadingCache(t, mk, lru, cb, pe) ==
  /\ ttl = t /\ maxKeys = mk /\ isLRU = lru /\ onEvicted = cb /\ purgeEvery = pe
  /\ data = {} /\ evictList = <<>>
  /\ done = "open"
  /\ purger = IF PurgerStarted(t, mk, pe) THEN "running" ELSE "none"
  /\ panicked = FALSE
  /\ now = 0
  /\ evicted = EmptyBag
  /\ last = NoCall

\* The LruCache fields of a behaviour that drives the engine alone
NoLruCache ==
  /\ maxKeySize = 0 /\ maxValueSize = 0 /\ maxCacheSize = 0
  /\ opts = <<>> /\ newErr = NilErr /\ query = NoQuery /\ errs = NoErrs /\ NoBus /\ NoAux
  /\ Hits = 0 /\ Misses = 0 /\ Errors = 0 /\ currentSize = 0
  /\ pc = [p \in Procs |-> "idle"]
  /\ lkey = [p \in Procs |-> NoKey]
  /\ ldata = [p \in Procs |-> Nil]
  /\ lerr = [p \in Procs |-> NilErr]
  /\ held = [p \in Procs |-> Nil]
  /\ loaded = [p \in Procs |-> Nil]
  /\ loads = [p \in Procs |-> 0]
  /\ calls = 0

\* Options the engine is built with: TTL(1) or none, MaxKeys(2) or none,
\* LRU or LRC, all with OnEvicted; and a cache with a TTL and PurgeEvery but
\* no OnEvicted and no MaxKeys
EngineOptions ==
  [ttl : {1, noEvictionTTL}, maxKeys : {0, 2}, isLRU : BOOLEAN,
   onEvicted : {TRUE}, purgeEvery : {0}]
  \cup [ttl : {1}, maxKeys : {0}, isLRU : BOOLEAN, onEvicted : {FALSE},
        purgeEvery : {1}]
\* The engine holds values as interface{} and reads nothing of them: two
\* distinct values
EngineValues == {v \in Values : v.sizer => v.len = 1}

InitEngine ==
  /\ \E o \in EngineOptions :
       NewLoadingCache(o.ttl, o.maxKeys, o.isLRU, o.onEvicted, o.purgeEvery)
  /\ NoLruCache

\* ---------------------------------------------------------- engine actions
lruState == <<lruOpts, stats, currentSize, locals, calls>>

\* Commit the engine c after a call of a method under the mutex
Commit(c, call) ==
  /\ evictList' = c.list
  /\ data' = c.data
  /\ evicted' = c.ev
  /\ last' = call
  /\ UNCHANGED <<engineOpts, done, purger, panicked, now, lruState>>

LoadingCache_Set(key, value) ==
  /\ ~panicked
  /\ Commit(Set(Engine, key, value),
            [op |-> "Set", key |-> key, val |-> value, ok |-> TRUE])

LoadingCache_Get(key) ==
  /\ ~panicked
  /\ LET r == Get(Engine, key) IN
     Commit(r.c, [op |-> "Get", key |-> key, val |-> r.val, ok |-> r.ok])

LoadingCache_Peek(key) ==
  /\ ~panicked
  /\ LET r == Peek(Engine, key) IN
     Commit(r.c, [op |-> "Peek", key |-> key, val |-> r.val, ok |-> r.ok])

LoadingCache_Invalidate(key) ==
  /\ ~panicked
  /\ Commit(Invalidate(Engine, key),
            [op |-> "Invalidate", key |-> key, val |-> Nil, ok |-> FALSE])

LoadingCache_InvalidateFn(fn) ==
  /\ ~panicked
  /\ Commit(InvalidateFn(Engine, fn),
            [op |-> "InvalidateFn", key |-> NoKey, val |-> Nil, ok |-> FALSE])

LoadingCache_RemoveOldest ==
  /\ ~panicked
  /\ Commit(RemoveOldest(Engine),
            [op |-> "RemoveOldest", key |-> NoKey, val |-> Nil, ok |-> FALSE])

LoadingCache_Purge ==
  /\ ~panicked
  /\ Commit(Purge(Engine),
            [op |-> "Purge", key |-> NoKey, val |-> Nil, ok |-> FALSE])

LoadingCache_DeleteExpired ==
  /\ ~panicked
  /\ Commit(DeleteExpired(Engine),
            [op |-> "DeleteExpired", key |-> NoKey, val |-> Nil, ok |-> FALSE])

LoadingCache_Close ==
  /\ ~panicked
  /\ done' = Close(done).done
  /\ panicked' = Close(done).panic
  /\ evicted' = EmptyBag
  /\ last' = [op |-> "Close", key |-> NoKey, val |-> Nil, ok |-> ~Close(done).panic]
  /\ UNCHANGED <<engineOpts, data, evictList, purger, now, lruState>>

\* The purger goroutine: a tick of its ticker runs deleteExpired under the mutex
PurgerTick ==
  /\ ~panicked
  /\ purger = "running"
  /\ Commit(deleteExpired(Engine),
            [op |-> "tick", key |-> NoKey, val |-> Nil, ok |-> FALSE])

\* Mutant of PurgerExit: with done closed the goroutine still takes the
\* ticker's case
PurgerExit_sweeps ==
  /\ ~panicked
  /\ purger = "running"
  /\ done = "closed"
  /\ Commit(deleteExpired(Engine),
            [op |-> "tick", key |-> NoKey, val |-> Nil, ok |-> FALSE])

\* The purger goroutine: <-done returns
PurgerExit ==
  /\ ~panicked
  /\ purger = "running"
  /\ done = "closed"
  /\ purger' = "exited"
  /\ evicted' = EmptyBag
  /\ last' = [op |-> "exit", key |-> NoKey, val |-> Nil, ok |-> FALSE]
  /\ UNCHANGED <<engineOpts, data, evictList, done, panicked, now, lruState>>

\* Time passes.  Without a TTL no entry expires within MaxTime (entries live
\* noEvictionTTL), so the clock is advanced only for a cache with a TTL.
Tick ==
  /\ ~panicked
  /\ ttl # noEvictionTTL
  /\ now < MaxTime
  /\ now' = now + 1
  /\ evicted' = EmptyBag
  /\ last' = [op |-> "time", key |-> NoKey, val |-> Nil, ok |-> FALSE]
  /\ UNCHANGED <<engineOpts, data, evictList, done, purger, panicked, lruState>>

NextEngine ==
  \/ \E key \in Keys, value \in EngineValues : LoadingCache_Set(key, value)
  \/ \E key \in Keys : LoadingCache_Get(key)
  \/ \E key \in Keys : LoadingCache_Peek(key)
  \/ \E key \in Keys : LoadingCache_Invalidate(key)
  \/ \E fn \in SUBSET Keys : LoadingCache_InvalidateFn(fn)
  \/ LoadingCache_RemoveOldest
  \/ LoadingCache_Purge
  \/ LoadingCache_DeleteExpired
  \/ LoadingCache_Close
  \/ PurgerTick
  \/ PurgerExit
  \/ Tick

SpecEngine == InitEngine /\ [][NextEngine]_vars

\* An engine built with options that start the purger
InitPurger == InitEngine /\ purger = "running"

\* The callers write and read entries and close the cache while the purger
\* goroutine runs and time passes
NextPurger ==
  \/ \E key \in Keys, value \in {v \in EngineValues : ~IsSizer(v)} :
       LoadingCache_Set(key, value)
  \/ \E key \in Keys : LoadingCache_Get(key)
  \/ LoadingCache_Close
  \/ PurgerTick
  \/ PurgerExit
  \/ Tick

SpecPurger == InitPurger /\ [][NextPurger]_vars

\* The ticker keeps firing, and a select with a closed done channel takes
\* that case in the end (select chooses among its ready cases at random)
SpecPurgerFair == SpecPurger /\ WF_vars(PurgerTick) /\ WF_vars(PurgerExit)

\* ================================================================ LruCache
\* The Sizer values among the onEvicted calls of an engine call, summed: what
\* the callback NewLruCache installs subtracts from currentSize
RECURSIVE SizeOf(_)
SizeOf(b) ==
  IF BagToSet(b) = {} THEN 0
  ELSE LET x == CHOOSE y \in BagToSet(b) : TRUE
       IN (IF IsSizer(x.value) THEN Size(x.value) * CopiesIn(x, b) ELSE 0)
          + SizeOf([y \in BagToSet(b) \ {x} |-> b[y]])

\* NewLruCache: an LRU engine with MaxKeys(maxKeys), no TTL, and the callback
\* that keeps currentSize
NewLruCache(mk, mks, mvs, mcs) ==
  /\ NewLoadingCache(noEvictionTTL, mk, TRUE, TRUE, 0)
  /\ maxKeySize = mks /\ maxValueSize = mvs /\ maxCacheSize = mcs
  /\ opts = <<>> /\ newErr = NilErr /\ query = NoQuery /\ errs = NoErrs /\ NoBus /\ NoAux
  /\ Hits = 0 /\ Misses = 0 /\ Errors = 0 /\ currentSize = 0
  /\ pc = [p \in Procs |-> "idle"]
  /\ lkey = [p \in Procs |-> NoKey]
  /\ ldata = [p \in Procs |-> Nil]
  /\ lerr = [p \in Procs |-> NilErr]
  /\ held = [p \in Procs |-> Nil]
  /\ loaded = [p \in Procs |-> Nil]
  /\ loads = [p \in Procs |-> 0]
  /\ calls = 0

\* Options the cache is built with: MaxKeys(1) or MaxKeys(2) (of two keys);
\* MaxKeys(2) with MaxCacheSize(3); and that with MaxKeySize(1), MaxValSize(2)
LruOptions ==
  [maxKeys : {1, 2}, maxKeySize : {0}, maxValueSize : {0}, maxCacheSize : {0}]
  \cup [maxKeys : {2}, maxKeySize : {0}, maxValueSize : {0}, maxCacheSize : {3}]
  \cup [maxKeys : {2}, maxKeySize : {1}, maxValueSize : {2}, maxCacheSize : {3}]

\* ---- NewLruCache called with a list of options ----

NotCalled == "not called"

\* MaxValSize, MaxKeySize, MaxKeys, MaxCacheSize with a negative, zero or
\* positive argument
OptionNames == {"MaxValSize", "MaxKeySize", "MaxKeys", "MaxCacheSize"}
Option == [name : OptionNames, max : {-1, 0, 2}]
OptionLists == UNION {[1..n -> Option] : n \in 0..MaxOpts}

\* the error an option function returns
Option_negativeAccepted(o) == NilErr
OptionError(o) ==
  IF o.max >= 0 THEN NilErr
  ELSE CASE o.name = "MaxValSize" -> "negative max value size"
         [] o.name = "MaxKeySize" -> "negative max key size"
         [] o.name = "MaxKeys" -> "negative max keys"
         [] o.name = "MaxCacheSize" -> "negative max cache size"

\* the field an option function assigns
OptionSet(c, o) ==
  CASE o.name = "MaxValSize" -> [c EXCEPT !.maxValueSize = o.max]
    [] o.name = "MaxKeySize" -> [c EXCEPT !.maxKeySize = o.max]
    [] o.name = "MaxKeys" -> [c EXCEPT !.maxKeys = o.max]
    [] o.name = "MaxCacheSize" -> [c EXCEPT !.maxCacheSize = o.max]

\* errors.Wrap(err, message): nil when err is nil
Wrap(err, message) == IF err = NilErr THEN NilErr ELSE message \o ": " \o err

\* the loop over opts: stops at the first option that returns an error
RECURSIVE ApplyOptions(_, _)
ApplyOptions(c, os) ==
  IF os = <<>> THEN [options |-> c, err |-> NilErr]
  ELSE IF OptionError(Head(os)) # NilErr
    THEN [options |-> c, err |-> Wrap(OptionError(Head(os)), "failed to set cache option")]
    ELSE ApplyOptions(OptionSet(c, Head(os)), Tail(os))

DefaultOptions ==
  [maxKeys |-> defaultMaxKeys, maxKeySize |-> 0, maxValueSize |-> 0, maxCacheSize |-> 0]

\* before NewLruCache is called there is no cache
InitNew ==
  /\ opts \in OptionLists /\ newErr = NotCalled /\ query = NoQuery /\ errs = NoErrs /\ NoBus /\ NoAux
  /\ ttl = 0 /\ maxKeys = 0 /\ isLRU = FALSE /\ onEvicted = FALSE /\ purgeEvery = 0
  /\ data = {} /\ evictList = <<>> /\ done = "open" /\ purger = "none"
  /\ panicked = FALSE /\ now = 0 /\ evicted = EmptyBag /\ last = NoCall
  /\ maxKeySize = 0 /\ maxValueSize = 0 /\ maxCacheSize = 0
  /\ Hits = 0 /\ Misses = 0 /\ Errors = 0 /\ currentSize = 0
  /\ pc = [p \in Procs |-> "idle"]
  /\ lkey = [p \in Procs |-> NoKey]
  /\ ldata = [p \in Procs |-> Nil]
  /\ lerr = [p \in Procs |-> NilErr]
  /\ held = [p \in Procs |-> Nil]
  /\ loaded = [p \in Procs |-> Nil]
  /\ loads = [p \in Procs |-> 0]
  /\ calls = 0

NewLruCache_call ==
  /\ newErr = NotCalled
  /\ LET r == ApplyOptions(DefaultOptions, opts) IN
       IF r.err # NilErr
       THEN /\ newErr' = r.err
            /\ opts' = <<>>
            /\ UNCHANGED <<query, errs, busVars, auxVars>>
            /\ UNCHANGED <<engineOpts, data, evictList, done, purger, panicked, now,
                           evicted, last, maxKeySize, maxValueSize, maxCacheSize,
                           stats, currentSize, locals, calls>>
       ELSE /\ newErr' = NilErr
            /\ opts' = <<>>
            /\ UNCHANGED <<query, errs, busVars, auxVars>>
            /\ maxKeySize' = r.options.maxKeySize
            /\ maxValueSize' = r.options.maxValueSize
            /\ maxCacheSize' = r.options.maxCacheSize
            \* cache.NewLoadingCache(cache.LRU(), cache.MaxKeys(res.maxKeys),
            \* cache.OnEvicted(...))
            /\ ttl' = noEvictionTTL /\ maxKeys' = r.options.maxKeys
            /\ isLRU' = TRUE /\ onEvicted' = TRUE /\ purgeEvery' = 0
            /\ data' = {} /\ evictList' = <<>> /\ done' = "open"
            /\ purger' = IF PurgerStarted(noEvictionTTL, r.options.maxKeys, 0)
                            THEN "running" ELSE "none"
            /\ UNCHANGED <<panicked, now, evicted, last, stats, currentSize,
                           locals, calls>>

\* ---- optionsFromQuery ----

Digits == <<"0", "1", "2", "3", "4", "5", "6", "7", "8", "9">>
IsDigit(c) == \E i \in DOMAIN Digits : Digits[i] = c
DigitVal(c) == (CHOOSE i \in DOMAIN Digits : Digits[i] = c) - 1
Unsigned(s) == IF s # <<>> /\ s[1] \in {"-", "+"} THEN Tail(s) ELSE s
Sign(s) == IF s # <<>> /\ s[1] = "-" THEN -1 ELSE 1

RECURSIVE Number(_)
Number(s) == IF s = <<>> THEN 0 ELSE 10 * Number(SubSeq(s, 1, Len(s) - 1)) + DigitVal(s[Len(s)])

RECURSIVE Str(_)
Str(s) == IF s = <<>> THEN "" ELSE s[1] \o Str(Tail(s))

\* strconv.Atoi and strconv.ParseInt(v, 10, 64): an optional sign and one or
\* more decimal digits
Atoi(v) ==
  IF Unsigned(v) # <<>> /\ \A i \in DOMAIN Unsigned(v) : IsDigit(Unsigned(v)[i])
  THEN [n |-> Sign(v) * Number(Unsigned(v)), err |-> NilErr]
  ELSE [n |-> 0, err |-> "strconv.Atoi: parsing " \o Str(v) \o ": invalid syntax"]

\* time.ParseDuration, for a value of one number and one unit: an optional
\* sign, then "0" alone or digits followed by the unit; in seconds
Units == {"s", "m", "h"}
ParseDuration(v) ==
  LET u == Unsigned(v) IN
    IF u = <<"0">> THEN [n |-> 0, err |-> NilErr]
    ELSE IF /\ Len(u) >= 2
            /\ u[Len(u)] \in Units
            /\ \A i \in 1..(Len(u) - 1) : IsDigit(u[i])
      THEN [n |-> Sign(v) * Number(SubSeq(u, 1, Len(u) - 1))
                    * (CASE u[Len(u)] = "s" -> 1 [] u[Len(u)] = "m" -> 60
                         [] u[Len(u)] = "h" -> 3600),
            err |-> NilErr]
      ELSE [n |-> 0, err |-> "time: invalid duration " \o Str(v)]

\* multierror.Append(errs, e): a nil error is not appended
multierror_Append(es, e) == IF e = NilErr THEN es ELSE Append(es, e)
\* (*multierror.Error).ErrorOrNil
ErrorOrNil(es) == IF Len(es) = 0 THEN NilErr ELSE Str(es)

\* the parameters optionsFromQuery reads, in the order it reads them, with
\* the option each one makes
Recognised == <<"max_val_size", "max_key_size", "max_keys", "max_cache_size", "ttl">>
OptionOf(param) ==
  CASE param = "max_val_size" -> "MaxValSize"
    [] param = "max_key_size" -> "MaxKeySize"
    [] param = "max_keys" -> "MaxKeys"
    [] param = "max_cache_size" -> "MaxCacheSize"
    [] param = "ttl" -> "TTL"
Parse(param, v) == IF param = "ttl" THEN ParseDuration(v) ELSE Atoi(v)

\* one "if v := q.Get(param); v != \"\"" block; err is the named result, which
\* is nil until the function returns, and e is the error of the conversion
Wrapf(err, e, message) == Wrap(err, message)
ReadParam(r, param, v) ==
  LET err == NilErr
      e == Parse(param, v).err
  IN IF v = <<>> THEN r
     ELSE IF e # NilErr
       THEN [r EXCEPT !.errs = multierror_Append(@, Wrapf(err, e, param \o " query param " \o Str(v)))]
       ELSE [r EXCEPT !.opts = Append(@, [name |-> OptionOf(param), max |-> Parse(param, v).n])]

RECURSIVE ReadParams(_, _, _)
ReadParams(r, q, i) ==
  IF i > Len(Recognised) THEN r
  ELSE ReadParams(ReadParam(r, Recognised[i], q[Recognised[i]]), q, i + 1)

optionsFromQuery(q) == ReadParams([opts |-> <<>>, errs |-> <<>>], q, 1)

\* queries: each parameter absent, a number, a negative number, a duration or
\* not a number at all; the parameter the function does not know absent or set
QueryValues == {<<>>, <<"1", "0">>, <<"-", "1">>, <<"2", "s">>, <<"x">>}
Queries == {q \in [Params -> QueryValues] : q["foo"] \in {<<>>, <<"x">>}}

InitUrl ==
  /\ query \in Queries /\ errs = NoErrs /\ opts = <<>> /\ newErr = NotCalled /\ NoBus /\ NoAux
  /\ ttl = 0 /\ maxKeys = 0 /\ isLRU = FALSE /\ onEvicted = FALSE /\ purgeEvery = 0
  /\ data = {} /\ evictList = <<>> /\ done = "open" /\ purger = "none"
  /\ panicked = FALSE /\ now = 0 /\ evicted = EmptyBag /\ last = NoCall
  /\ maxKeySize = 0 /\ maxValueSize = 0 /\ maxCacheSize = 0
  /\ Hits = 0 /\ Misses = 0 /\ Errors = 0 /\ currentSize = 0
  /\ pc = [p \in Procs |-> "idle"]
  /\ lkey = [p \in Procs |-> NoKey]
  /\ ldata = [p \in Procs |-> Nil]
  /\ lerr = [p \in Procs |-> NilErr]
  /\ held = [p \in Procs |-> Nil]
  /\ loaded = [p \in Procs |-> Nil]
  /\ loads = [p \in Procs |-> 0]
  /\ calls = 0

optionsFromQuery_call ==
  /\ ~errs.returned
  /\ opts' = optionsFromQuery(query).opts
  /\ errs' = [returned |-> TRUE, Errors |-> optionsFromQuery(query).errs]
  /\ UNCHANGED <<engineOpts, data, evictList, done, purger, panicked, now, evicted,
                 last, maxKeySize, maxValueSize, maxCacheSize, newErr, query,
                 busVars, auxVars, stats, currentSize, locals, calls>>

NextUrl == optionsFromQuery_call

SpecUrl == InitUrl /\ [][NextUrl]_vars

InitLru ==
  \E o \in LruOptions :
    NewLruCache(o.maxKeys, o.maxKeySize, o.maxValueSize, o.maxCacheSize)

\* Mutant of allowed: the value-size check with > for >=
allowed_sizeStrictlyGreater(key, v) ==
  IF maxKeySize > 0 /\ Len(key) > maxKeySize THEN FALSE
  ELSE IF IsSizer(v) /\ maxValueSize > 0 /\ Size(v) > maxValueSize THEN FALSE
  ELSE TRUE

\* allowed: the admission checks of a loaded value
allowed(key, v) ==
  IF maxKeySize > 0 /\ Len(key) > maxKeySize THEN FALSE
  ELSE IF IsSizer(v) /\ maxValueSize > 0 /\ Size(v) >= maxValueSize THEN FALSE
  ELSE TRUE

\* What the list holds for key (Nil when the map has no such key)
HeldValue(key) ==
  IF key \in data THEN evictList[Elem(Engine, key)].value ELSE Nil

\* An engine call made by LruCache: the engine's callback runs inside it.  The
\* cache is built without OnEvicted of its own (res.onEvicted = nil), so the
\* callback only keeps currentSize.
Backend(c) ==
  /\ evictList' = c.list
  /\ data' = c.data
  /\ evicted' = EmptyBag
  /\ currentSize' = currentSize - SizeOf(c.ev)
  /\ UNCHANGED <<engineOpts, done, purger, panicked, now, last, lruOpts>>

\* Get, line 56: c.backend.Get(key)
LruCache_Get_lookup(p, key) ==
  /\ ~panicked
  /\ pc[p] = "idle"
  /\ calls < MaxCalls
  /\ calls' = calls + 1
  /\ LET r == Get(Engine, key) IN
       /\ Backend(r.c)
       /\ pc' = [pc EXCEPT ![p] = IF r.ok THEN "hit" ELSE "load"]
       /\ ldata' = [ldata EXCEPT ![p] = r.val]
  /\ lkey' = [lkey EXCEPT ![p] = key]
  /\ held' = [held EXCEPT ![p] = HeldValue(key)]
  /\ UNCHANGED <<stats, lerr, loaded, loads>>

\* Mutant of LruCache_Get_hit: the hit is returned but not counted
LruCache_Get_hit_uncounted(p) ==
  /\ ~panicked
  /\ pc[p] = "hit"
  /\ pc' = [pc EXCEPT ![p] = "done"]
  /\ UNCHANGED <<engineOpts, data, evictList, done, purger, panicked, now, evicted,
                 last, lruOpts, stats, currentSize, lkey, ldata, lerr,
                 held, loaded, loads, calls>>

\* Get, lines 57-58: count the hit and return the cached value
LruCache_Get_hit(p) ==
  /\ ~panicked
  /\ pc[p] = "hit"
  /\ Hits' = Hits + 1
  /\ pc' = [pc EXCEPT ![p] = "done"]
  /\ UNCHANGED <<engineOpts, data, evictList, done, purger, panicked, now, evicted,
                 last, lruOpts, Misses, Errors, currentSize, lkey, ldata, lerr,
                 held, loaded, loads, calls>>

\* Mutant of LruCache_Get_load: a failed load is stored like a loaded value
LruCache_Get_load_storesError(p, v, err) ==
  /\ ~panicked
  /\ pc[p] = "load"
  /\ loads' = [loads EXCEPT ![p] = @ + 1]
  /\ ldata' = [ldata EXCEPT ![p] = v]
  /\ loaded' = [loaded EXCEPT ![p] = v]
  /\ lerr' = [lerr EXCEPT ![p] = err]
  /\ IF err # NilErr
     THEN /\ Errors' = Errors + 1
          /\ Misses' = Misses
     ELSE /\ Misses' = Misses + 1
          /\ Errors' = Errors
  /\ pc' = [pc EXCEPT ![p] = IF allowed(lkey[p], v) THEN "set" ELSE "done"]
  /\ UNCHANGED <<engineOpts, data, evictList, done, purger, panicked, now, evicted,
                 last, lruOpts, Hits, currentSize, lkey, held, calls>>

\* Get, lines 61-68: the loader returns (v, err); an error is counted and
\* returned, a value is counted as a miss and checked for admission
LruCache_Get_load(p, v, err) ==
  /\ ~panicked
  /\ pc[p] = "load"
  /\ loads' = [loads EXCEPT ![p] = @ + 1]
  /\ ldata' = [ldata EXCEPT ![p] = v]
  /\ loaded' = [loaded EXCEPT ![p] = v]
  /\ lerr' = [lerr EXCEPT ![p] = err]
  /\ IF err # NilErr
     THEN /\ Errors' = Errors + 1
          /\ Misses' = Misses
          /\ pc' = [pc EXCEPT ![p] = "done"]
     ELSE /\ Misses' = Misses + 1
          /\ Errors' = Errors
          /\ pc' = [pc EXCEPT ![p] = IF allowed(lkey[p], v) THEN "set" ELSE "done"]
  /\ UNCHANGED <<engineOpts, data, evictList, done, purger, panicked, now, evicted,
                 last, lruOpts, Hits, currentSize, lkey, held, calls>>

\* Get, line 69: c.backend.Set(key, data)
LruCache_Get_set(p) ==
  /\ ~panicked
  /\ pc[p] = "set"
  /\ Backend(Set(Engine, lkey[p], ldata[p]))
  /\ pc' = [pc EXCEPT ![p] = IF IsSizer(ldata[p]) THEN "add" ELSE "done"]
  /\ UNCHANGED <<stats, lkey, ldata, lerr, held, loaded, loads, calls>>

\* Get, line 72: atomic.AddInt64(&c.currentSize, size)
LruCache_Get_add(p) ==
  /\ ~panicked
  /\ pc[p] = "add"
  /\ currentSize' = currentSize + Size(ldata[p])
  /\ pc' = [pc EXCEPT ![p] = IF maxCacheSize > 0 THEN "check" ELSE "done"]
  /\ UNCHANGED <<engineOpts, data, evictList, done, purger, panicked, now, evicted,
                 last, lruOpts, stats, lkey, ldata, lerr, held, loaded, loads, calls>>

\* Get, lines 73-74: atomic.LoadInt64(&c.currentSize) > c.maxCacheSize
LruCache_Get_check(p) ==
  /\ ~panicked
  /\ pc[p] = "check"
  /\ pc' = [pc EXCEPT ![p] = IF currentSize > maxCacheSize THEN "evict" ELSE "done"]
  /\ UNCHANGED <<engineOpts, data, evictList, done, purger, panicked, now, evicted,
                 last, lruOpts, stats, currentSize, lkey, ldata, lerr, held, loaded,
                 loads, calls>>

\* Get, line 75: c.backend.RemoveOldest()
LruCache_Get_evict(p) ==
  /\ ~panicked
  /\ pc[p] = "evict"
  /\ Backend(RemoveOldest(Engine))
  /\ pc' = [pc EXCEPT ![p] = "check"]
  /\ UNCHANGED <<stats, lkey, ldata, lerr, held, loaded, loads, calls>>

\* Get returns (data, err) to its caller
LruCache_Get_return(p) ==
  /\ ~panicked
  /\ pc[p] = "done"
  /\ pc' = [pc EXCEPT ![p] = "idle"]
  /\ lkey' = [lkey EXCEPT ![p] = NoKey]
  /\ ldata' = [ldata EXCEPT ![p] = Nil]
  /\ lerr' = [lerr EXCEPT ![p] = NilErr]
  /\ held' = [held EXCEPT ![p] = Nil]
  /\ loaded' = [loaded EXCEPT ![p] = Nil]
  /\ loads' = [loads EXCEPT ![p] = 0]
  /\ UNCHANGED <<engineOpts, data, evictList, done, purger, panicked, now, evicted,
                 last, lruOpts, stats, currentSize, calls>>

\* Peek(key): c.backend.Peek(key), which changes nothing
LruCache_Peek(key) ==
  /\ ~panicked
  /\ Backend(Peek(Engine, key).c)
  /\ UNCHANGED <<stats, locals, calls>>

\* Purge, line 90: c.backend.Purge()
LruCache_Purge_backend(p) ==
  /\ ~panicked
  /\ pc[p] = "idle"
  /\ Backend(Purge(Engine))
  /\ pc' = [pc EXCEPT ![p] = "purge"]
  /\ UNCHANGED <<stats, lkey, ldata, lerr, held, loaded, loads, calls>>

\* Purge, line 91: atomic.StoreInt64(&c.currentSize, 0)
LruCache_Purge_store(p) ==
  /\ ~panicked
  /\ pc[p] = "purge"
  /\ currentSize' = 0
  /\ pc' = [pc EXCEPT ![p] = "idle"]
  /\ UNCHANGED <<engineOpts, data, evictList, done, purger, panicked, now, evicted,
                 last, lruOpts, stats, lkey, ldata, lerr, held, loaded, loads, calls>>

\* Invalidate(fn): c.backend.InvalidateFn(fn)
LruCache_Invalidate(fn) ==
  /\ ~panicked
  /\ Backend(InvalidateFn(Engine, fn))
  /\ UNCHANGED <<stats, locals, calls>>

\* Mutant of LruCache_Delete: Get holds a lock of the cache while its loader
\* runs, and Delete waits for it
LruCache_Delete_waitsForLoader(key) ==
  /\ ~panicked
  /\ \A p \in Procs : pc[p] # "load"
  /\ Backend(Invalidate(Engine, key))
  /\ UNCHANGED <<stats, locals, calls>>

\* Delete(key): c.backend.Invalidate(key)
LruCache_Delete(key) ==
  /\ ~panicked
  /\ Backend(Invalidate(Engine, key))
  /\ UNCHANGED <<stats, locals, calls>>

\* Close: c.backend.Close(); return nil
LruCache_Close == LoadingCache_Close

Errs == {NilErr, "some error"}
LruKeys == {"a", "bb"}

\* The steps of LruCache.Get after the lookup, for the goroutines of P, with
\* loaders that return the values of V
GetRest(P, V) ==
  \/ \E p \in P : LruCache_Get_hit(p)
  \/ \E p \in P, v \in V, err \in Errs : LruCache_Get_load(p, v, err)
  \/ \E p \in P : LruCache_Get_set(p)
  \/ \E p \in P : LruCache_Get_add(p)
  \/ \E p \in P : LruCache_Get_check(p)
  \/ \E p \in P : LruCache_Get_evict(p)
  \/ \E p \in P : LruCache_Get_return(p)

\* The steps of LruCache.Get called by the goroutines of P
GetSteps(P, V) ==
  \/ \E p \in P, key \in LruKeys : LruCache_Get_lookup(p, key)
  \/ GetRest(P, V)

\* The steps of LruCache called by the goroutines of P
NextLruBy(P, V) ==
  \/ GetSteps(P, V)
  \/ \E key \in LruKeys : LruCache_Peek(key)
  \/ \E p \in P : LruCache_Purge_backend(p)
  \/ \E p \in P : LruCache_Purge_store(p)
  \/ \E fn \in SUBSET LruKeys : LruCache_Invalidate(fn)
  \/ \E key \in LruKeys : LruCache_Delete(key)

NextLruOf(V) == NextLruBy(Procs, V)

NextLru == NextLruOf(Values)

SpecLru == InitLru /\ [][NextLru]_vars

\* A cache with MaxCacheSize(3) whose loaders return Sizer values only
InitLruSizer == \E mk \in {1, 2} : NewLruCache(mk, 0, 0, 3)

NextLruSizer == NextLruOf({v \in Values : v.sizer}) \/ LruCache_Close

SpecLruSizer == InitLruSizer /\ [][NextLruSizer]_vars

\* A cache on which goroutines only call Get
NextLruGets == GetSteps(Procs, Values)

SpecLruGets == InitLru /\ [][NextLruGets]_vars

\* A cache with MaxCacheSize(1) or MaxCacheSize(3) on which each goroutine
\* calls Get for a key of its own, with loaders that return Sizer values of
\* size 1..MaxValLen + 1
KeyOf(p) == IF p = "p1" THEN "a" ELSE "bb"
SizersUpTo(n) == [sizer : {TRUE}, len : 1..n]

InitLruDistinct == \E mcs \in {1, 3} : NewLruCache(2, 0, 0, mcs)

NextLruDistinct ==
  \/ \E p \in Procs : LruCache_Get_lookup(p, KeyOf(p))
  \/ GetRest(Procs, SizersUpTo(MaxValLen + 1))

SpecLruDistinct == InitLruDistinct /\ [][NextLruDistinct]_vars

\* A cache used by one goroutine: every call returns before the next starts
\* NewLruCache, and the Gets of one caller on the cache it returned
CacheGets == newErr = NilErr /\ GetSteps({"p1"}, Values)
NextNew == NewLruCache_call \/ CacheGets

SpecNew == InitNew /\ [][NextNew]_vars

\* ------------------------------------------------------------ Scache
\* A scoped key is {partition, id, scopes}; its strings are sequences of
\* characters.  Canonical form: partition "@@" id "@@" scopes joined by "$$".
keySep == <<"@", "@">>
scopeSep == <<"$", "$">>

RECURSIVE Join(_, _)
Join(parts, sep) ==
  IF parts = <<>> THEN <<>>
  ELSE IF Len(parts) = 1 THEN parts[1]
  ELSE parts[1] \o sep \o Join(Tail(parts), sep)

\* the position of the first occurrence of sep in s, 0 if there is none
Index(s, sep) ==
  LET at == {i \in 1..(Len(s) - Len(sep) + 1) : SubSeq(s, i, i + Len(sep) - 1) = sep}
  IN IF at = {} THEN 0 ELSE CHOOSE i \in at : \A j \in at : i <= j

RECURSIVE Split(_, _)
Split(s, sep) ==
  LET i == Index(s, sep)
  IN IF i = 0 THEN <<s>>
     ELSE <<SubSeq(s, 1, i - 1)>> \o Split(SubSeq(s, i + Len(sep), Len(s)), sep)

NewKey(partition, id, scopes) == [partition |-> partition, id |-> id, scopes |-> scopes]
Key_String(k) == k.partition \o keySep \o k.id \o keySep \o Join(k.scopes, scopeSep)

\* parseKey: split on "@@", exactly 3 parts; the scopes are the non-empty
\* parts of the third, split on "$$"
parseKey(s) ==
  LET parts == Split(s, keySep)
  IN IF Len(parts) # 3 THEN [ok |-> FALSE, key |-> NewKey(<<>>, <<>>, <<>>)]
     ELSE [ok |-> TRUE,
           key |-> NewKey(parts[1], parts[2],
                          SelectSeq(Split(parts[3], scopeSep), LAMBDA sc : sc # <<>>))]

Flusher(partition, scopes) == [partition |-> partition, scopes |-> scopes]

ScopeSet(scopes) == {scopes[i] : i \in DOMAIN scopes}

\* the rule the spec words give: every requested scope is one of the key's
inScopes_everyScope(key, req) ==
  req.scopes = <<>> \/ ScopeSet(req.scopes) \subseteq ScopeSet(key.scopes)
\* whether a flush request matches a key: no scopes requested, or one of the
\* requested scopes is one of the key's
inScopes(key, req) ==
  req.scopes = <<>> \/ ScopeSet(req.scopes) \cap ScopeSet(key.scopes) # {}

\* a flush that does not look at the partition of a key
FlushKeys_anyPartition(ks, req) ==
  {k \in ks : parseKey(k).ok /\ inScopes(parseKey(k).key, req)}
\* the keys a flush deletes: those that parse, are of the requested partition
\* and match; a key that does not parse is left alone
FlushKeys(ks, req) ==
  {k \in ks : /\ parseKey(k).ok
              /\ parseKey(k).key.partition = req.partition
              /\ inScopes(parseKey(k).key, req)}

\* lc.Delete(k) for every key to delete, in the order of lc.Keys()
RECURSIVE DeleteKeys(_, _)
DeleteKeys(c, ks) ==
  IF ks = {} THEN c
  ELSE LET k == CHOOSE key \in ks : TRUE
       IN DeleteKeys(Invalidate(c, k), ks \ {k})

\* names used by TestScache_Flush, and a second partition
site == <<"s", "i", "t", "e">>
other == <<"o", "t", "h", "e", "r">>
KeyId(n) == <<"k", "e", "y", n>>
s0 == <<"s", "0">>
s1 == <<"s", "1">>
s2 == <<"s", "2">>
s3 == <<"s", "3">>
s4 == <<"s", "4">>
ss == <<"s", "s">>

\* the keys init() of TestScache_Flush adds, in its order
TestKeys ==
  <<NewKey(site, KeyId("1"), <<s1, s2>>),
    NewKey(site, KeyId("2"), <<s1, s2, s3>>),
    NewKey(site, KeyId("3"), <<s1, s2, s3>>),
    NewKey(site, KeyId("4"), <<s2, s3>>),
    NewKey(site, KeyId("5"), <<s2>>),
    NewKey(site, KeyId("6"), <<>>),
    NewKey(site, KeyId("7"), <<s4, s3>>)>>

\* the table of TestScache_Flush: the scopes flushed and the keys left
TestTable ==
  <<[scopes |-> <<>>, left |-> 0],
    [scopes |-> <<s0>>, left |-> 7],
    [scopes |-> <<s1>>, left |-> 4],
    [scopes |-> <<s2, s1>>, left |-> 2],
    [scopes |-> <<s1, s2>>, left |-> 2],
    [scopes |-> <<s1, s2, s4>>, left |-> 1],
    [scopes |-> <<s1, s2, s3>>, left |-> 1],
    [scopes |-> <<s1, s2, ss>>, left |-> 2]>>

\* keys given to Get: two keys of the test (one with scopes, one without), a
\* key of another partition, and a key whose id contains the separator, so
\* that its string does not parse
ScopedKeys ==
  {TestKeys[1], TestKeys[6], NewKey(other, KeyId("1"), <<s1>>),
   NewKey(site, <<"k", "@", "@", "8">>, <<s1>>)}

\* the flushes of the test, and two of the other partition
Flushers ==
  {Flusher(site, TestTable[i].scopes) : i \in DOMAIN TestTable}
  \cup {Flusher(other, <<>>), Flusher(other, <<s1>>)}

\* the loader of Scache.Get returns []byte, which is no Sizer
Bytes == {v \in Values : ~IsSizer(v)}

\* the backend after init() of TestScache_Flush
RECURSIVE AddToCache(_, _)
AddToCache(c, added) ==
  IF added = <<>> THEN c
  ELSE AddToCache(Set(c, Key_String(Head(added)), CHOOSE v \in Bytes : TRUE), Tail(added))

\* NewScache(NewLruCache()): empty, or as init() of TestScache_Flush leaves it
InitScache ==
  /\ ttl = noEvictionTTL /\ maxKeys = defaultMaxKeys /\ isLRU = TRUE
  /\ onEvicted = TRUE /\ purgeEvery = 0
  /\ done = "open" /\ purger = "none" /\ panicked = FALSE /\ now = 0
  /\ evicted = EmptyBag /\ last = NoCall
  /\ \E added \in {<<>>, TestKeys} :
       /\ evictList = AddToCache([list |-> <<>>, data |-> {}, ev |-> EmptyBag], added).list
       /\ data = {Key_String(added[i]) : i \in DOMAIN added}
       /\ Misses = Len(added)
  /\ maxKeySize = 0 /\ maxValueSize = 0 /\ maxCacheSize = 0
  /\ opts = <<>> /\ newErr = NilErr /\ query = NoQuery /\ errs = NoErrs /\ NoBus /\ NoAux
  /\ Hits = 0 /\ Errors = 0 /\ currentSize = 0
  /\ pc = [p \in Procs |-> "idle"]
  /\ lkey = [p \in Procs |-> NoKey]
  /\ ldata = [p \in Procs |-> Nil]
  /\ lerr = [p \in Procs |-> NilErr]
  /\ held = [p \in Procs |-> Nil]
  /\ loaded = [p \in Procs |-> Nil]
  /\ loads = [p \in Procs |-> 0]
  /\ calls = 0

\* Scache.Get(key, fn): m.lc.Get(key.String(), ...)
Scache_Get(key) == LruCache_Get_lookup("p1", Key_String(key))

\* Scache.Flush(req)
Scache_Flush(req) ==
  /\ ~panicked
  /\ Backend(DeleteKeys(Engine, FlushKeys(data, req)))
  /\ UNCHANGED <<stats, locals, calls>>

NextScache ==
  \/ \E key \in ScopedKeys : Scache_Get(key)
  \/ LruCache_Get_hit("p1")
  \/ \E v \in Bytes, err \in Errs : LruCache_Get_load("p1", v, err)
  \/ LruCache_Get_set("p1")
  \/ LruCache_Get_return("p1")
  \/ \E req \in Flushers : Scache_Flush(req)

SpecScache == InitScache /\ [][NextScache]_vars

\* --------------------------------------------------------- event bus
\* Caches built with EventBus(ps) on one mockPubSub.  Each has its own
\* instance id, subscribes onBusEvent at construction, and publishes
\* (id, key) from the eviction callback of its backend.
CacheIds == {"lc1", "lc2"}
BusKeys == {"a", "bb"}
BusValue == CHOOSE v \in Values : ~IsSizer(v)

\* the backend of cache id
Node(id) == [list |-> nodes[id].list, data |-> nodes[id].data, ev |-> EmptyBag]
Stored(c) == [list |-> c.list, data |-> c.data]
EvictedKeys(c) == {e.key : e \in BagToSet(c.ev)}

\* mockPubSub.Publish(fromID, key): the key is appended to calledKeys and one
\* goroutine is started for every subscribed fn
mockPubSub_Publish(ps, fromID, key) ==
  [calledKeys |-> Append(ps.calledKeys, key),
   fns |-> ps.fns (+) SetToBag({[to |-> id, fromID |-> fromID, key |-> key] : id \in CacheIds})]

\* the eviction callback of cache id, called for every key its backend evicted
RECURSIVE PublishAll(_, _, _)
PublishAll(ps, id, evictedKeys) ==
  IF evictedKeys = {} THEN ps
  ELSE LET key == CHOOSE k \in evictedKeys : TRUE
       IN PublishAll(mockPubSub_Publish(ps, id, key), id, evictedKeys \ {key})

\* a call of cache id has left its backend as c, with c.ev evicted
BusBackend(ps, id, c) ==
  /\ nodes' = [nodes EXCEPT ![id] = Stored(c)]
  /\ calledKeys' = PublishAll(ps, id, EvictedKeys(c)).calledKeys
  /\ fns' = PublishAll(ps, id, EvictedKeys(c)).fns
  /\ UNCHANGED <<engineOpts, data, evictList, done, purger, panicked, now, evicted,
                 last, maxKeySize, maxValueSize, maxCacheSize, opts, newErr, query,
                 errs, auxVars, stats, currentSize, locals>>

PubSub == [calledKeys |-> calledKeys, fns |-> fns]

\* two caches of maxKeys 1 or 2 on one bus, nothing published yet
InitBus ==
  /\ ttl = noEvictionTTL /\ maxKeys \in {1, 2} /\ isLRU = TRUE
  /\ onEvicted = TRUE /\ purgeEvery = 0
  /\ data = {} /\ evictList = <<>>
  /\ done = "open" /\ purger = "none" /\ panicked = FALSE /\ now = 0
  /\ evicted = EmptyBag /\ last = NoCall
  /\ maxKeySize = 0 /\ maxValueSize = 0 /\ maxCacheSize = 0
  /\ opts = <<>> /\ newErr = NilErr /\ query = NoQuery /\ errs = NoErrs
  /\ nodes = [id \in CacheIds |-> [list |-> <<>>, data |-> {}]]
  /\ calledKeys = <<>> /\ fns = EmptyBag /\ evictions = 0 /\ busDeletes = 0
  /\ NoAux
  /\ Hits = 0 /\ Misses = 0 /\ Errors = 0 /\ currentSize = 0
  /\ pc = [p \in Procs |-> "idle"]
  /\ lkey = [p \in Procs |-> NoKey]
  /\ ldata = [p \in Procs |-> Nil]
  /\ lerr = [p \in Procs |-> NilErr]
  /\ held = [p \in Procs |-> Nil]
  /\ loaded = [p \in Procs |-> Nil]
  /\ loads = [p \in Procs |-> 0]
  /\ calls = 0

\* Get(key, fn) on cache id, by its one caller: a hit, or a load that is set
\* and may evict the oldest key
BusCache_Get(id, key) ==
  /\ calls < MaxCalls
  /\ calls' = calls + 1
  /\ LET r == Get(Node(id), key)
         c == IF r.ok THEN r.c ELSE Set(Node(id), key, BusValue)
     IN /\ BusBackend(PubSub, id, c)
        /\ evictions' = evictions + BagCardinality(c.ev)
  /\ UNCHANGED busDeletes

\* Delete(key) on cache id, called by its user
BusCache_Delete(id, key) ==
  /\ calls < MaxCalls
  /\ calls' = calls + 1
  /\ LET c == Invalidate(Node(id), key)
     IN /\ BusBackend(PubSub, id, c)
        /\ evictions' = evictions + BagCardinality(c.ev)
  /\ UNCHANGED busDeletes

\* Mutant of onBusEvent: a cache reacts on its own messages too
onBusEvent_ownMessages(h) ==
  /\ BagIn(h, fns)
  /\ LET ps == [calledKeys |-> calledKeys, fns |-> fns (-) SetToBag({h})]
         c == Invalidate(Node(h.to), h.key)
     IN /\ BusBackend(ps, h.to, c)
        /\ busDeletes' = busDeletes + BagCardinality(c.ev)
  /\ UNCHANGED <<evictions, calls>>

\* Mutant of onBusEvent: the delete it makes is not published
onBusEvent_silent(h) ==
  /\ BagIn(h, fns)
  /\ LET c == IF h.fromID # h.to /\ h.key \in nodes[h.to].data
                THEN Invalidate(Node(h.to), h.key)
                ELSE Node(h.to)
     IN /\ nodes' = [nodes EXCEPT ![h.to] = Stored(c)]
        /\ busDeletes' = busDeletes + BagCardinality(c.ev)
  /\ fns' = fns (-) SetToBag({h})
  /\ UNCHANGED <<engineOpts, data, evictList, done, purger, panicked, now, evicted,
                 last, maxKeySize, maxValueSize, maxCacheSize, opts, newErr, query,
                 errs, auxVars, stats, currentSize, locals, calledKeys, evictions, calls>>

\* a goroutine of Publish runs fn(fromID, key), the onBusEvent of cache h.to:
\* a message of another cache about a key this one holds deletes the key
onBusEvent(h) ==
  /\ BagIn(h, fns)
  /\ LET ps == [calledKeys |-> calledKeys, fns |-> fns (-) SetToBag({h})]
         c == IF h.fromID # h.to /\ h.key \in nodes[h.to].data
                THEN Invalidate(Node(h.to), h.key)
                ELSE Node(h.to)
     IN /\ BusBackend(ps, h.to, c)
        /\ busDeletes' = busDeletes + BagCardinality(c.ev)
  /\ UNCHANGED <<evictions, calls>>

Handlers == [to : CacheIds, fromID : CacheIds, key : BusKeys]

NextBus ==
  \/ \E id \in CacheIds, key \in BusKeys : BusCache_Get(id, key)
  \/ \E id \in CacheIds, key \in BusKeys : BusCache_Delete(id, key)
  \/ \E h \in Handlers : onBusEvent(h)

SpecBus == InitBus /\ [][NextBus]_vars

\* every goroutine that Publish has started is scheduled in the end
SpecBusFair == SpecBus /\ \A h \in Handlers : WF_vars(onBusEvent(h))

\* A cache with MaxCacheSize(1) or MaxCacheSize(3) on which goroutines call
\* Get (for any key, with loaders that return Sizer values), Delete and Purge
NextLruLoop ==
  \/ GetSteps(Procs, SizersUpTo(MaxValLen))
  \/ \E key \in LruKeys : LruCache_Delete(key)
  \/ \E p \in Procs : LruCache_Purge_backend(p)
  \/ \E p \in Procs : LruCache_Purge_store(p)

SpecLruLoop == InitLruDistinct /\ [][NextLruLoop]_vars

\* a goroutine that is inside Get or Purge is scheduled again and again
SpecLruLoopFair ==
  /\ SpecLruLoop
  /\ \A p \in Procs :
       WF_vars(GetRest({p}, SizersUpTo(MaxValLen)) \/ LruCache_Purge_store(p))

\* ------------------------------------------------------------------
\* ExpirableCache (expirable_cache.go), used by one caller. Its backend is
\* a ristretto cache: a store of items, each of cost 1, with an expiration.
\* Set may drop an item, and admits one into a full store by evicting
\* another; an expired item is not found, and is removed by the cleanup.

ExpKeys == {"a", "bb"}
ExpTTL == 1

\* store.Get: an item is expired once the time is after its expiration
Live(store, t) == {item \in store : t <= item.expiresAt}
HeldKeys == {item.key : item \in Live(backend, now)}

\* what the OnEvict of NewExpirableCache takes from currentSize for the items
\* the backend evicts
RECURSIVE onEvict(_)
onEvict(items) ==
  IF items = {} THEN 0
  ELSE LET item == CHOOSE i \in items : TRUE
       IN (IF IsSizer(item.value) THEN Size(item.value) ELSE 0)
            + onEvict(items \ {item})

\* backend.Get(key)
ristretto_Get(store, key) ==
  IF \E item \in Live(store, now) : item.key = key
  THEN [ok |-> TRUE, value |-> (CHOOSE item \in store : item.key = key).value]
  ELSE [ok |-> FALSE, value |-> Nil]

\* backend.SetWithTTL(key, value, 1, ttl): the stores it may leave, each with
\* the items evicted for it
SetWithTTL(store, key, value) ==
  LET item == [key |-> key, value |-> value, expiresAt |-> now + ttl]
      same == {i \in store : i.key = key}
  IN {[store |-> store, evicted |-> {}]} \cup
     (IF same # {} \/ Cardinality(store) < maxKeys
      THEN {[store |-> (store \ same) \cup {item}, evicted |-> {}]}
      ELSE {[store |-> (store \ {victim}) \cup {item}, evicted |-> {victim}] :
              victim \in store})

\* backend.Del(key), for each key of a set
Del(store, removed) ==
  [store |-> {i \in store : i.key \notin removed},
   evicted |-> {i \in store : i.key \in removed}]

InitExp ==
  /\ ttl = ExpTTL /\ maxKeys \in {1, 2} /\ isLRU = FALSE
  /\ onEvicted = FALSE /\ purgeEvery = 0
  /\ data = {} /\ evictList = <<>>
  /\ done = "open" /\ purger = "none" /\ panicked = FALSE /\ now = 0
  /\ evicted = EmptyBag /\ last = NoCall
  /\ maxKeySize = 0 /\ maxValueSize = 0 /\ maxCacheSize = 0
  /\ opts = <<>> /\ newErr = NilErr /\ query = NoQuery /\ errs = NoErrs /\ NoBus
  /\ keysStorage = {} /\ backend = {} /\ NoImpl /\ NoNop /\ NoMore
  /\ Hits = 0 /\ Misses = 0 /\ Errors = 0 /\ currentSize = 0
  /\ pc = [p \in Procs |-> "idle"]
  /\ lkey = [p \in Procs |-> NoKey]
  /\ ldata = [p \in Procs |-> Nil]
  /\ lerr = [p \in Procs |-> NilErr]
  /\ held = [p \in Procs |-> Nil]
  /\ loaded = [p \in Procs |-> Nil]
  /\ loads = [p \in Procs |-> 0]
  /\ calls = 0

ExpUnchanged ==
  UNCHANGED <<engineOpts, data, evictList, done, purger, panicked, evicted, last,
              maxKeySize, maxValueSize, maxCacheSize, opts, newErr, query, errs,
              busVars, implVars, nopVars, moreVars, locals>>

\* Get(key, fn), lines 65-84; fn returns value, or fails
ExpirableCache_Get(key, value, fails) ==
  /\ calls < MaxCalls
  /\ calls' = calls + 1
  /\ IF ristretto_Get(backend, key).ok
     THEN /\ Hits' = Hits + 1
          /\ UNCHANGED <<Misses, Errors, currentSize, keysStorage, backend>>
     ELSE IF fails
     THEN /\ Errors' = Errors + 1
          /\ UNCHANGED <<Hits, Misses, currentSize, keysStorage, backend>>
     ELSE /\ Misses' = Misses + 1
          /\ \E r \in SetWithTTL(backend, key, value) :
               /\ backend' = r.store
               /\ currentSize' = currentSize
                                   + (IF IsSizer(value) THEN Size(value) ELSE 0)
                                   - onEvict(r.evicted)
          /\ keysStorage' = keysStorage \cup {key}
          /\ UNCHANGED <<Hits, Errors>>
  /\ UNCHANGED now
  /\ ExpUnchanged

\* Invalidate(fn), lines 87-93; fn holds of the keys in fnKeys
ExpirableCache_Invalidate(fnKeys) ==
  /\ calls < MaxCalls
  /\ calls' = calls + 1
  /\ LET r == Del(backend, {key \in keysStorage : key \in fnKeys})
     IN /\ backend' = r.store
        /\ currentSize' = currentSize - onEvict(r.evicted)
  /\ UNCHANGED <<keysStorage, stats, now>>
  /\ ExpUnchanged

\* Purge, lines 101-104: backend.Clear() calls no OnEvict
ExpirableCache_Purge ==
  /\ calls < MaxCalls
  /\ calls' = calls + 1
  /\ backend' = {}
  /\ currentSize' = 0
  /\ UNCHANGED <<keysStorage, stats, now>>
  /\ ExpUnchanged

\* Delete(key), lines 107-109
ExpirableCache_Delete(key) ==
  /\ calls < MaxCalls
  /\ calls' = calls + 1
  /\ LET r == Del(backend, {key})
     IN /\ backend' = r.store
        /\ currentSize' = currentSize - onEvict(r.evicted)
  /\ UNCHANGED <<keysStorage, stats, now>>
  /\ ExpUnchanged

\* Keys(), lines 112-118
ExpirableCache_Keys == keysStorage

\* the backend's cleanup removes the expired items and calls OnEvict for each
ristretto_cleanup ==
  /\ backend # Live(backend, now)
  /\ backend' = Live(backend, now)
  /\ currentSize' = currentSize - onEvict(backend \ Live(backend, now))
  /\ UNCHANGED <<keysStorage, stats, now, calls>>
  /\ ExpUnchanged

ExpTick ==
  /\ now < MaxTime
  /\ now' = now + 1
  /\ UNCHANGED <<keysStorage, backend, stats, currentSize, calls>>
  /\ ExpUnchanged

NextExp ==
  \/ \E key \in ExpKeys, value \in Values, fails \in BOOLEAN :
       ExpirableCache_Get(key, value, fails)
  \/ \E key \in ExpKeys : ExpirableCache_Delete(key)
  \/ ExpirableCache_Purge
  \/ \E fnKeys \in SUBSET ExpKeys : ExpirableCache_Invalidate(fnKeys)
  \/ ristretto_cleanup
  \/ ExpTick

SpecExp == InitExp /\ [][NextExp]_vars

\* ------------------------------------------------------------------
\* ExpirableCache called by the goroutines of Procs at once.  The backend is
\* safe for concurrent use and the counters are atomic; keysStorage is a plain
\* Go map.  pc[p] is "store" while p is at the assignment of line 81 and
\* "range" while it is in the loop of Invalidate (line 88) or Keys (line 114).

ExpParUnchanged ==
  UNCHANGED <<engineOpts, data, evictList, done, purger, evicted, last,
              maxKeySize, maxValueSize, maxCacheSize, opts, newErr, query, errs,
              busVars, implVars, nopVars, v2data, list, ldata, lerr, held, loaded,
              loads>>

\* another goroutine is reading or writing keysStorage
OthersInKeysStorage(p) == \E q \in Procs \ {p} : pc[q] \in {"store", "range"}

\* Get(key, fn), lines 66-80: up to backend.SetWithTTL
ExpirableCache_Get_backend(p, key, value, fails) ==
  /\ ~panicked
  /\ pc[p] = "idle"
  /\ calls < MaxCalls
  /\ calls' = calls + 1
  /\ IF ristretto_Get(backend, key).ok
     THEN /\ Hits' = Hits + 1
          /\ UNCHANGED <<Misses, Errors, currentSize, backend, pc, lkey>>
     ELSE IF fails
     THEN /\ Errors' = Errors + 1
          /\ UNCHANGED <<Hits, Misses, currentSize, backend, pc, lkey>>
     ELSE /\ Misses' = Misses + 1
          /\ \E r \in SetWithTTL(backend, key, value) :
               /\ backend' = r.store
               /\ currentSize' = currentSize
                                   + (IF IsSizer(value) THEN Size(value) ELSE 0)
                                   - onEvict(r.evicted)
          /\ pc' = [pc EXCEPT ![p] = "store"]
          /\ lkey' = [lkey EXCEPT ![p] = key]
          /\ UNCHANGED <<Hits, Errors>>
  /\ UNCHANGED <<keysStorage, ranging, panicked, now>>
  /\ ExpParUnchanged

\* Get, line 81: c.keysStorage[key] = struct{}{}.  A map write while another
\* goroutine writes or iterates the map is a data race: the write may go
\* through, or the runtime stops the program ("concurrent map writes").
ExpirableCache_Get_store(p) ==
  /\ ~panicked
  /\ pc[p] = "store"
  /\ keysStorage' = keysStorage \cup {lkey[p]}
  /\ panicked' \in (IF OthersInKeysStorage(p) THEN BOOLEAN ELSE {FALSE})
  /\ pc' = [pc EXCEPT ![p] = "idle"]
  /\ lkey' = [lkey EXCEPT ![p] = NoKey]
  /\ UNCHANGED <<backend, ranging, stats, currentSize, calls, now>>
  /\ ExpParUnchanged

\* Invalidate(fn), line 88, and Keys(), line 114: the loop over keysStorage
\* is entered; fn holds of the keys in fnKeys
ExpirableCache_range(p, op, fnKeys) ==
  /\ ~panicked
  /\ pc[p] = "idle"
  /\ calls < MaxCalls
  /\ calls' = calls + 1
  /\ pc' = [pc EXCEPT ![p] = "range"]
  /\ ranging' = [ranging EXCEPT ![p] = [op |-> op, fn |-> fnKeys, seen |-> keysStorage]]
  /\ UNCHANGED <<keysStorage, backend, lkey, stats, currentSize, panicked, now>>
  /\ ExpParUnchanged

\* the keys a loop sees: those the map held when it began, and any of those
\* stored since
RangeSeen(p) == {S \in SUBSET keysStorage : ranging[p].seen \subseteq S}

\* Invalidate, lines 88-92: the loop ends
ExpirableCache_Invalidate_end(p) ==
  /\ ~panicked
  /\ pc[p] = "range"
  /\ ranging[p].op = "Invalidate"
  /\ \E S \in RangeSeen(p) :
       LET r == Del(backend, S \cap ranging[p].fn)
       IN /\ backend' = r.store
          /\ currentSize' = currentSize - onEvict(r.evicted)
  /\ pc' = [pc EXCEPT ![p] = "idle"]
  /\ ranging' = [ranging EXCEPT ![p] = NoRange]
  /\ UNCHANGED <<keysStorage, lkey, stats, calls, panicked, now>>
  /\ ExpParUnchanged

\* Keys, lines 114-117: the loop ends and the keys seen are returned
ExpirableCache_Keys_end(p) ==
  /\ ~panicked
  /\ pc[p] = "range"
  /\ ranging[p].op = "Keys"
  /\ \E S \in RangeSeen(p) :
       ranging' = [ranging EXCEPT ![p] = [op |-> "none", fn |-> {}, seen |-> S]]
  /\ pc' = [pc EXCEPT ![p] = "idle"]
  /\ UNCHANGED <<keysStorage, backend, lkey, stats, currentSize, calls, panicked, now>>
  /\ ExpParUnchanged

NextExpPar ==
  \/ \E p \in Procs, key \in ExpKeys, value \in Values, fails \in BOOLEAN :
       ExpirableCache_Get_backend(p, key, value, fails)
  \/ \E p \in Procs : ExpirableCache_Get_store(p)
  \/ \E p \in Procs, fnKeys \in SUBSET ExpKeys :
       ExpirableCache_range(p, "Invalidate", fnKeys)
  \/ \E p \in Procs : ExpirableCache_range(p, "Keys", {})
  \/ \E p \in Procs : ExpirableCache_Invalidate_end(p)
  \/ \E p \in Procs : ExpirableCache_Keys_end(p)
  \/ ristretto_cleanup
  \/ ExpTick

SpecExpPar == InitExp /\ [][NextExpPar]_vars

\* ------------------------------------------------------------------
\* package cache (cache/cache.go): loadingCacheImpl.  InitImpl is the cache
\* made by NewLoadingCache() without MaxKeys and PurgeEvery, where neither the
\* purge goroutine (line 64) nor the purge of Get (line 111) runs;
\* InitImplPurge is the cache made with MaxKeys.

\* the goroutines that call Get, in the order in which they are taken
Goroutines == 1..3
ImplKeys == {"a", "bb"}
\* the loaders passed to Get: what they return
Loaders == [value : {v \in Values : ~IsSizer(v) \/ Size(v) = 1}, fails : BOOLEAN]
\* the zero time.Time
ZeroTime == 0 - 1
NoItem == 0
\* no loader
NoLoader == [value |-> Nil, fails |-> FALSE]
IdleGet == [pc |-> "idle", key |-> NoKey, f |-> NoLoader, ci |-> NoItem, data |-> Nil,
            called |-> FALSE, err |-> NilErr]
LoaderErr == "loader error"

\* Mutant of cacheItem_value: the loader is called on every read
cacheItem_value_alwaysLoads(ci, allowErr) ==
  LET r == ci.fun
      e == IF r.fails THEN LoaderErr ELSE NilErr
  IN [ci |-> [ci EXCEPT !.data = r.value, !.err = e,
                        !.expiresAt = IF e # NilErr /\ ~allowErr THEN now
                                      ELSE now + ci.ttl,
                        !.lastReadAt = now],
      called |-> TRUE]

\* cacheItem.value(allowError), lines 213-229, under the item's lock
cacheItem_value(ci, allowErr) ==
  IF ci.expiresAt = ZeroTime \/ now > ci.expiresAt
  THEN LET r == ci.fun
           e == IF r.fails THEN LoaderErr ELSE NilErr
       IN [ci |-> [ci EXCEPT !.data = r.value, !.err = e,
                             !.expiresAt = IF e # NilErr /\ ~allowErr THEN now
                                           ELSE now + ci.ttl,
                             !.lastReadAt = now],
           called |-> TRUE]
  ELSE [ci |-> [ci EXCEPT !.lastReadAt = now], called |-> FALSE]

\* cacheItem.hasExpired at time t, lines 231-235
hasExpired(ci, t) == ci.expiresAt # ZeroTime /\ t > ci.expiresAt

\* the Get calls made: MaxCalls, and MaxGets on a cache with MaxKeys, which
\* purges at twice as many keys
MaxGets == 4
ImplCalls == IF maxKeys > 0 THEN MaxGets ELSE MaxCalls

\* purge, lines 169-189: the range loop, visiting the map m in the given
\* order.  An expired item is deleted and counted; then, with the map still
\* above maxKeys, the key is listed with the timestamp of the loop's item,
\* whether it was just deleted or not.
RECURSIVE implPurgeRange(_, _, _, _, _, _)
implPurgeRange(m, order, i, kts, ev, mk) ==
  IF i > Len(order) THEN [data |-> m, kts |-> kts, ev |-> ev]
  ELSE LET key == order[i]
           cacheItem == heap[m[key]]
           expired == hasExpired(cacheItem, now)
           m1 == IF expired THEN MapDelete(m, key) ELSE m
           ev1 == IF expired THEN ev + 1 ELSE ev
           ts == IF isLRU THEN cacheItem.lastReadAt ELSE cacheItem.expiresAt
       IN IF mk > 0 /\ Cardinality(DOMAIN m1) > mk
          THEN implPurgeRange(m1, order, i + 1, kts \cup {[key |-> key, ts |-> ts]},
                              ev1, mk)
          ELSE implPurgeRange(m1, order, i + 1, kts, ev1, mk)

\* purge, lines 192-200: size eviction.  r is what the range loop left.  The
\* size - maxKeys first entries of the sorted kts are deleted from the map,
\* each counted in Evicted, whether the map still held the key or not
\* (sort.Slice is not stable: among equal timestamps any may come first).
\* With the map above maxKeys at the end it was so at every visit, so kts
\* lists every key and has the size - maxKeys entries that are indexed.
implPurgeSize(r, mk) ==
  LET m == r.data
      n == Cardinality(DOMAIN m) - mk
  IN IF r.kts = {} \/ n <= 0 THEN {[data |-> m, ev |-> r.ev]}
     ELSE {[data |-> [k \in DOMAIN m \ {e.key : e \in S} |-> m[k]],
            ev |-> r.ev + n] :
           S \in {T \in SUBSET r.kts :
                    /\ Cardinality(T) = n
                    /\ \A s \in T, t \in r.kts \ T : s.ts <= t.ts}}

\* purge(maxKeys), lines 165-201: every outcome on the map m; ev is the
\* number it adds to stat.Evicted, and stat.Size is set from the map it leaves
implPurge(m, mk) ==
  UNION {implPurgeSize(implPurgeRange(m, order, 1, {}, 0, mk), mk) :
         order \in RangeOrders(DOMAIN m)}

InitImpl ==
  /\ ttl = 0 /\ maxKeys = 0 /\ isLRU = FALSE
  /\ onEvicted = FALSE /\ purgeEvery = 0
  /\ data = {} /\ evictList = <<>>
  /\ done = "open" /\ purger = "none" /\ panicked = FALSE /\ now = 0
  /\ evicted = EmptyBag /\ last = NoCall
  /\ maxKeySize = 0 /\ maxValueSize = 0 /\ maxCacheSize = 0
  /\ opts = <<>> /\ newErr = NilErr /\ query = NoQuery /\ errs = NoErrs /\ NoBus
  /\ NoExp /\ NoNop /\ NoMore
  /\ allowError \in BOOLEAN
  /\ heap = <<>>
  /\ implData = [k \in {} |-> NoItem]
  /\ stat = [Size |-> 0, Hits |-> 0, Misses |-> 0, Added |-> 0, Evicted |-> 0]
  /\ gets = [g \in Goroutines |-> IdleGet]
  /\ loaderCalls = [k \in ImplKeys |-> 0]
  /\ results = [k \in ImplKeys |-> <<>>]
  /\ disturbed = {}
  /\ Hits = 0 /\ Misses = 0 /\ Errors = 0 /\ currentSize = 0
  /\ pc = [p \in Procs |-> "idle"]
  /\ lkey = [p \in Procs |-> NoKey]
  /\ ldata = [p \in Procs |-> Nil]
  /\ lerr = [p \in Procs |-> NilErr]
  /\ held = [p \in Procs |-> Nil]
  /\ loaded = [p \in Procs |-> Nil]
  /\ loads = [p \in Procs |-> 0]
  /\ calls = 0

ImplUnchanged ==
  UNCHANGED <<engineOpts, data, evictList, done, purger, panicked, evicted, last,
              maxKeySize, maxValueSize, maxCacheSize, opts, newErr, query, errs,
              busVars, expVars, nopVars, moreVars, stats, currentSize, locals, allowError>>

\* Get(key, d, f), lines 84-97: the item of key is looked up, or made
loadingCacheImpl_Get_lookup(g, key, d, f) ==
  /\ gets[g].pc = "idle"
  /\ \A h \in Goroutines : h < g => gets[h].pc # "idle"
  /\ calls < ImplCalls
  /\ calls' = calls + 1
  /\ IF key \in DOMAIN implData
     THEN /\ gets' = [gets EXCEPT ![g] = [IdleGet EXCEPT !.pc = "value", !.key = key, !.f = f,
                                                         !.ci = implData[key]]]
          /\ UNCHANGED <<heap, implData, stat>>
     ELSE /\ heap' = Append(heap, [fun |-> f,
                                   ttl |-> IF d = 0 THEN noEvictionTTL ELSE d,
                                   expiresAt |-> ZeroTime, lastReadAt |-> ZeroTime,
                                   data |-> Nil, err |-> NilErr])
          /\ implData' = [k \in DOMAIN implData \cup {key} |->
                            IF k = key THEN Len(heap) + 1 ELSE implData[k]]
          /\ stat' = [stat EXCEPT !.Added = @ + 1]
          /\ gets' = [gets EXCEPT ![g] = [IdleGet EXCEPT !.pc = "value", !.key = key, !.f = f,
                                                         !.ci = Len(heap) + 1]]
  /\ UNCHANGED <<now, loaderCalls, results, disturbed>>
  /\ ImplUnchanged

\* Get, line 101: ci.value(c.allowError), outside the cache's lock
loadingCacheImpl_Get_value(g) ==
  /\ gets[g].pc = "value"
  /\ LET r == cacheItem_value(heap[gets[g].ci], allowError)
     IN /\ heap' = [heap EXCEPT ![gets[g].ci] = r.ci]
        /\ gets' = [gets EXCEPT ![g].pc = "stat", ![g].data = r.ci.data,
                                ![g].called = r.called, ![g].err = r.ci.err]
        /\ loaderCalls' = [loaderCalls EXCEPT ![gets[g].key] =
                             @ + (IF r.called THEN 1 ELSE 0)]
  /\ UNCHANGED <<now, calls, implData, stat, results, disturbed>>
  /\ ImplUnchanged

\* Get, lines 103-114: the call is counted, purge is run on a cache that has
\* reached twice maxKeys, and the call returns
loadingCacheImpl_Get_stat(g) ==
  /\ gets[g].pc = "stat"
  /\ LET size == Cardinality(DOMAIN implData)
         counted == [stat EXCEPT !.Size = size,
                                 !.Misses = @ + (IF gets[g].called THEN 1 ELSE 0),
                                 !.Hits = @ + (IF gets[g].called THEN 0 ELSE 1)]
     IN IF maxKeys > 0 /\ size >= maxKeys * 2
        THEN \E r \in implPurge(implData, maxKeys) :
               /\ implData' = r.data
               /\ stat' = [counted EXCEPT !.Evicted = @ + r.ev,
                                          !.Size = Cardinality(DOMAIN r.data)]
        ELSE /\ stat' = counted
             /\ UNCHANGED implData
  /\ results' = [results EXCEPT ![gets[g].key] =
                   Append(@, [data |-> gets[g].data, err |-> gets[g].err,
                              miss |-> gets[g].called])]
  /\ gets' = [gets EXCEPT ![g] = IdleGet]
  /\ UNCHANGED <<now, calls, heap, loaderCalls, disturbed>>
  /\ ImplUnchanged

\* InvalidateFn(fn), lines 136-144; fn holds of the keys in fnKeys
loadingCacheImpl_InvalidateFn(fnKeys) ==
  /\ calls < MaxCalls
  /\ calls' = calls + 1
  /\ implData' = [k \in DOMAIN implData \ fnKeys |-> implData[k]]
  /\ disturbed' = disturbed \cup (DOMAIN implData \cap fnKeys)
  /\ UNCHANGED <<now, heap, stat, gets, loaderCalls, results>>
  /\ ImplUnchanged

\* Invalidate(key), lines 129-133
loadingCacheImpl_Invalidate(key) ==
  /\ calls < MaxCalls
  /\ calls' = calls + 1
  /\ implData' = [k \in DOMAIN implData \ {key} |-> implData[k]]
  /\ disturbed' = disturbed \cup (DOMAIN implData \cap {key})
  /\ UNCHANGED <<now, heap, stat, gets, loaderCalls, results>>
  /\ ImplUnchanged

\* time passes; the items it leaves expired are noted
ImplTick ==
  /\ now < MaxTime
  /\ now' = now + 1
  /\ disturbed' = disturbed \cup
                    {k \in DOMAIN implData : hasExpired(heap[implData[k]], now + 1)}
  /\ UNCHANGED <<calls, heap, implData, stat, gets, loaderCalls, results>>
  /\ ImplUnchanged

\* NewLoadingCache(MaxKeys(2)), with or without LRU(), lines 51-79: the purge
\* goroutine runs
InitImplPurge ==
  /\ ttl = 0 /\ maxKeys = V2MaxKeys /\ isLRU \in BOOLEAN
  /\ onEvicted = FALSE /\ purgeEvery = 0
  /\ data = {} /\ evictList = <<>>
  /\ done = "open" /\ purger = "running" /\ panicked = FALSE /\ now = 0
  /\ evicted = EmptyBag /\ last = NoCall
  /\ maxKeySize = 0 /\ maxValueSize = 0 /\ maxCacheSize = 0
  /\ opts = <<>> /\ newErr = NilErr /\ query = NoQuery /\ errs = NoErrs /\ NoBus
  /\ NoExp /\ NoNop /\ NoMore
  /\ allowError = FALSE
  /\ heap = <<>>
  /\ implData = [k \in {} |-> NoItem]
  /\ stat = [Size |-> 0, Hits |-> 0, Misses |-> 0, Added |-> 0, Evicted |-> 0]
  /\ gets = [g \in Goroutines |-> IdleGet]
  /\ loaderCalls = [k \in ImplKeys |-> 0]
  /\ results = [k \in ImplKeys |-> <<>>]
  /\ disturbed = {}
  /\ Hits = 0 /\ Misses = 0 /\ Errors = 0 /\ currentSize = 0
  /\ pc = [p \in Procs |-> "idle"]
  /\ lkey = [p \in Procs |-> NoKey]
  /\ ldata = [p \in Procs |-> Nil]
  /\ lerr = [p \in Procs |-> NilErr]
  /\ held = [p \in Procs |-> Nil]
  /\ loaded = [p \in Procs |-> Nil]
  /\ loads = [p \in Procs |-> 0]
  /\ calls = 0

\* the purge goroutine, lines 68-75: a tick of its ticker runs purge(maxKeys)
\* under the lock
loadingCacheImpl_purger ==
  /\ purger = "running"
  /\ \E r \in implPurge(implData, maxKeys) :
       /\ implData' = r.data
       /\ stat' = [stat EXCEPT !.Evicted = @ + r.ev,
                               !.Size = Cardinality(DOMAIN r.data)]
  /\ UNCHANGED <<now, calls, heap, gets, loaderCalls, results, disturbed>>
  /\ ImplUnchanged

\* One caller at a time makes Get calls for four keys, with a TTL and a loader
\* that succeeds; the purge goroutine runs in between
NextImplPurge ==
  \/ \E key \in V2Keys, f \in {l \in Loaders : ~l.fails /\ ~IsSizer(l.value)} :
       loadingCacheImpl_Get_lookup(1, key, 1, f)
  \/ loadingCacheImpl_Get_value(1)
  \/ loadingCacheImpl_Get_stat(1)
  \/ loadingCacheImpl_purger
  \/ ImplTick

SpecImplPurge == InitImplPurge /\ [][NextImplPurge]_vars

NextImpl ==
  \/ \E g \in Goroutines, key \in ImplKeys, d \in {0, 1}, f \in Loaders :
       loadingCacheImpl_Get_lookup(g, key, d, f)
  \/ \E g \in Goroutines : loadingCacheImpl_Get_value(g)
  \/ \E g \in Goroutines : loadingCacheImpl_Get_stat(g)
  \/ \E key \in ImplKeys : loadingCacheImpl_Invalidate(key)
  \/ \E fnKeys \in SUBSET ImplKeys : loadingCacheImpl_InvalidateFn(fnKeys)
  \/ ImplTick

SpecImpl == InitImpl /\ [][NextImpl]_vars

\* ------------------------------------------------------------------
\* Nop (interface.go): a LoadingCache that keeps nothing. A loader is given
\* as what it returns, as for loadingCacheImpl.

NopKeys == {"key1", "key2"}

\* Mutant of Nop_Get: what an earlier call loaded for the key is returned
Nop_Get_cached(key, fn) ==
  IF \E i \in DOMAIN nopLog : nopLog[i].op = "Get" /\ nopLog[i].key = key
  THEN LET i == CHOOSE i \in DOMAIN nopLog :
                  nopLog[i].op = "Get" /\ nopLog[i].key = key
       IN [val |-> nopLog[i].val, ok |-> nopLog[i].ok, called |-> 0]
  ELSE [val |-> fn.value, ok |-> ~fn.fails, called |-> 1]

\* Get(key, fn), line 27: return fn()
Nop_Get(key, fn) == [val |-> fn.value, ok |-> ~fn.fails, called |-> 1]
\* Peek(key), line 30: return nil, false
Nop_Peek(key) == [val |-> Nil, ok |-> FALSE]
\* size(), line 39, and keys(), line 42
Nop_size == 0
Nop_keys == 0

InitNop ==
  /\ ttl = 0 /\ maxKeys = 0 /\ isLRU = FALSE
  /\ onEvicted = FALSE /\ purgeEvery = 0
  /\ data = {} /\ evictList = <<>>
  /\ done = "open" /\ purger = "none" /\ panicked = FALSE /\ now = 0
  /\ evicted = EmptyBag /\ last = NoCall
  /\ maxKeySize = 0 /\ maxValueSize = 0 /\ maxCacheSize = 0
  /\ opts = <<>> /\ newErr = NilErr /\ query = NoQuery /\ errs = NoErrs /\ NoBus
  /\ NoExp /\ NoImpl /\ NoMore
  /\ nopLog = <<>> /\ coldCalls = 0
  /\ Hits = 0 /\ Misses = 0 /\ Errors = 0 /\ currentSize = 0
  /\ pc = [p \in Procs |-> "idle"]
  /\ lkey = [p \in Procs |-> NoKey]
  /\ ldata = [p \in Procs |-> Nil]
  /\ lerr = [p \in Procs |-> NilErr]
  /\ held = [p \in Procs |-> Nil]
  /\ loaded = [p \in Procs |-> Nil]
  /\ loads = [p \in Procs |-> 0]
  /\ calls = 0

NopUnchanged ==
  UNCHANGED <<engineOpts, data, evictList, done, purger, panicked, now, evicted, last,
              maxKeySize, maxValueSize, maxCacheSize, opts, newErr, query, errs,
              busVars, expVars, implVars, moreVars, stats, currentSize, locals>>

\* a call is made and what it returned is noted
NopCall(entry, called) ==
  /\ calls' = calls + 1
  /\ nopLog' = Append(nopLog, entry)
  /\ coldCalls' = coldCalls + called
  /\ NopUnchanged

\* a call of Get(key, fn)
Nop_Get_call(key, fn) ==
  /\ calls < MaxCalls
  /\ LET r == Nop_Get(key, fn)
     IN NopCall([op |-> "Get", key |-> key, fn |-> fn, val |-> r.val, ok |-> r.ok,
              size |-> Nop_size, keys |-> Nop_keys], r.called)

\* a call of Peek(key)
Nop_Peek_call(key) ==
  /\ calls < MaxCalls
  /\ LET r == Nop_Peek(key)
     IN NopCall([op |-> "Peek", key |-> key, fn |-> Nil, val |-> r.val, ok |-> r.ok,
              size |-> Nop_size, keys |-> Nop_keys], 0)

\* Invalidate(fn), line 33
Nop_Invalidate_call ==
  /\ calls < MaxCalls
  /\ NopCall([op |-> "Invalidate", key |-> NoKey, fn |-> Nil, val |-> Nil, ok |-> TRUE,
           size |-> Nop_size, keys |-> Nop_keys], 0)

\* Purge(), line 36
Nop_Purge_call ==
  /\ calls < MaxCalls
  /\ NopCall([op |-> "Purge", key |-> NoKey, fn |-> Nil, val |-> Nil, ok |-> TRUE,
           size |-> Nop_size, keys |-> Nop_keys], 0)

NextNop ==
  \/ \E key \in NopKeys, fn \in Loaders : Nop_Get_call(key, fn)
  \/ \E key \in NopKeys : Nop_Peek_call(key)
  \/ Nop_Invalidate_call
  \/ Nop_Purge_call

SpecNop == InitNop /\ [][NextNop]_vars

NextLruSeq == NextLruBy({"p1"}, Values)

SpecLruSeq == InitLru /\ [][NextLruSeq]_vars

\* ================================================================== claims
\* No LruCache operation is in progress
Quiescent == \A p \in Procs : pc[p] \in {"idle", "done"}

\* The sum of Size() over the values the list holds that implement Sizer
RECURSIVE SumSizes(_)
SumSizes(l) ==
  IF l = <<>> THEN 0
  ELSE (IF IsSizer(Head(l).value) THEN Size(Head(l).value) ELSE 0) + SumSizes(Tail(l))

HeldBytes == SumSizes(evictList)

\* C1: a Get whose key the cache held at the lookup returns the held value
\* with a nil error and never calls its loader, also when several Gets for
\* the key run at once; a Get whose key was not held calls its loader exactly
\* once and returns the loader's value.
C1_GetReturnsHeldOrLoadsOnce ==
  \A p \in Procs :
    pc[p] = "done" =>
      IF held[p] # Nil
      THEN ldata[p] = held[p] /\ lerr[p] = NilErr /\ loads[p] = 0
      ELSE loads[p] = 1 /\ ldata[p] = loaded[p]

\* C1 witness: two Gets for the same held key have run at once and both hit
C1_Witness ==
  \E p, q \in Procs :
    /\ p # q
    /\ pc[p] = "done" /\ pc[q] = "done"
    /\ lkey[p] = lkey[q]
    /\ held[p] # Nil /\ held[q] # Nil

\* C2: when the loader fails, Get returns the loader's value and its error,
\* stores nothing (map, list and byte counter unchanged) and increments
\* Errors only; the key was absent, stays absent, so the next Get loads again.
C2_LoaderErrorNotCached ==
  /\ [](\A p \in Procs :
          (pc[p] = "done" /\ lerr[p] # NilErr) =>
             /\ ldata[p] = loaded[p]
             /\ loads[p] = 1
             /\ held[p] = Nil)
  /\ [][\A p \in Procs :
          (pc[p] = "load" /\ pc'[p] # "load" /\ lerr'[p] # NilErr) =>
             /\ pc'[p] = "done"
             /\ Errors' = Errors + 1 /\ Hits' = Hits /\ Misses' = Misses
             /\ data' = data /\ evictList' = evictList
             /\ currentSize' = currentSize]_vars

\* C2 witness: a Get has returned its loader's error
C2_Witness == \E p \in Procs : pc[p] = "done" /\ lerr[p] # NilErr

\* The Gets that have not counted yet
Uncounted == {p \in Procs : pc[p] \in {"hit", "load"}}

\* C3: every Get increments exactly one counter (a hit Hits, a successful load
\* Misses, a failed load Errors), so once all started Gets have returned
\* Hits + Misses + Errors is the number of Get calls.
C3_CountersSumToCalls ==
  /\ [](Hits + Misses + Errors = calls - Cardinality(Uncounted))
  /\ [][\A p \in Procs :
          (p \in Uncounted /\ pc'[p] \notin {"hit", "load"}) =>
             /\ Hits' = Hits + (IF pc[p] = "hit" THEN 1 ELSE 0)
             /\ Misses' = Misses + (IF pc[p] = "load" /\ lerr'[p] = NilErr THEN 1 ELSE 0)
             /\ Errors' = Errors + (IF pc[p] = "load" /\ lerr'[p] # NilErr THEN 1 ELSE 0)]_vars
  /\ [][(\A p \in Uncounted : pc'[p] = pc[p]) => UNCHANGED stats]_vars

\* C3 witness: all Gets have returned, one of each kind
C3_Witness ==
  /\ Quiescent
  /\ calls = MaxCalls
  /\ Hits > 0 /\ Misses > 0 /\ Errors > 0

\* C4: with MaxCacheSize(C), C > 0, and Sizer values only, whenever no
\* operation is in progress the values held sum to at most C.
C4_HeldBytesWithinMaxCacheSize ==
  (maxCacheSize > 0 /\ Quiescent) => HeldBytes <= maxCacheSize

\* C5: whenever no operation is in progress, the byte counter equals the sum
\* of Size() over the held values that implement Sizer.
C5_CurrentSizeIsHeldBytes ==
  Quiescent => currentSize = HeldBytes

\* ------------------------------------------------ claims about the engine
ItemOf(key) == evictList[Elem(Engine, key)]

\* What Peek(key) and Get(key) return in the current state
PeekReturn(key) == LET r == Peek(Engine, key) IN [val |-> r.val, ok |-> r.ok]
GetReturn(key) == LET r == Get(Engine, key) IN [val |-> r.val, ok |-> r.ok]

SetIsRead ==
  last'.op = "Set" =>
    \A key \in Keys, v \in Values :
      (last'.key = key /\ last'.val = v) =>
         /\ PeekReturn(key)' = [val |-> v, ok |-> TRUE]
         /\ GetReturn(key)' = [val |-> v, ok |-> TRUE]

\* C7, as a step, with the operations that may remove a key given by
\* Removers: what Get and Peek return for k is kept unless k's TTL elapses, k
\* is set again, or k is removed by one of Removers.  (A step that changes
\* neither the list nor the clock changes no read.)
ReadsKept(Removers) ==
  \A key \in data :
    ( /\ (evictList' # evictList \/ now' # now)
      /\ ~(last'.op = "Set" /\ last'.key = key)
      /\ ~(key \notin data' /\ last'.op \in Removers)
      /\ ~(now' > ItemOf(key).expiresAt) ) =>
       LET before == Peek(Engine, key) IN
         before.ok =>
           LET peek == Peek(Engine, key)'
               get == Get(Engine, key)'
           IN /\ peek.ok /\ peek.val = before.val
              /\ get.ok /\ get.val = before.val

\* Invalidate, InvalidateFn, Purge, DeleteExpired (called, or run by the
\* purger's tick) and the max-keys eviction of Set
ListedRemovers == {"Invalidate", "InvalidateFn", "Purge", "DeleteExpired", "tick", "Set"}

\* C7 as stated: after Set(k, v) every Get(k) and Peek(k) returns (v, true)
\* until the TTL elapses, k is set again, or one of the listed operations
\* removes k.
C7_ReadsStableAsStated == [][SetIsRead /\ ReadsKept(ListedRemovers)]_vars

\* C7 amended: after Set(k, v) every Get(k) and Peek(k) returns (v, true)
\* until the TTL elapses, k is set again, or k is removed by one of the listed
\* operations or by RemoveOldest.
C7_ReadsStable ==
  [][SetIsRead /\ ReadsKept(ListedRemovers \cup {"RemoveOldest"})]_vars

\* C7 witness: a Get returns the value set, with another key in the cache
C7_Witness ==
  /\ last.op = "Get" /\ last.ok
  /\ Len(evictList) >= 2
  /\ last.val = ItemOf(last.key).value

\* C8: Get and Peek of an entry whose TTL has elapsed return not-found, and
\* leave the map and the list (so ItemCount) as they were.
C8_ExpiredNotReturnedNotRemoved ==
  [][(last'.op \in {"Get", "Peek"} /\ last'.key \in data
        /\ Expired(ItemOf(last'.key), now)) =>
       /\ ~last'.ok /\ last'.val = Nil
       /\ data' = data /\ evictList' = evictList]_vars

\* C8 witness: a read has missed an entry that is expired and still stored
C8_Witness ==
  /\ last.op \in {"Get", "Peek"} /\ ~last.ok
  /\ last.key \in data
  /\ Expired(ItemOf(last.key), now)

\* The entries a step removes, each once, with the value held at removal
RemovedByStep ==
  SetToBag({[key |-> evictList[i].key, value |-> evictList[i].value] :
              i \in {j \in 1..Len(evictList) : evictList[j].key \notin data'}})

\* C9: with onEvicted set, every step calls it exactly once for each entry
\* it removes, with the key and the value held, and for nothing else.
C9_OnEvictedOncePerRemoval ==
  [][onEvicted => evicted' = RemovedByStep]_vars

\* C9 witness: one call has removed two entries and reported both
C9_Witness == onEvicted /\ Cardinality(BagToSet(evicted)) >= 2

\* C10: Close on a closed cache returns normally and changes nothing.
C10_CloseIdempotent ==
  [][(last'.op = "Close" /\ done = "closed") =>
       /\ ~panicked'
       /\ done' = done /\ data' = data /\ evictList' = evictList]_vars

\* The admission rule as the claim C11 words it
KeyRejected(key) == maxKeySize > 0 /\ Len(key) > maxKeySize
ValueRejected(v) == IsSizer(v) /\ maxValueSize > 0 /\ Size(v) >= maxValueSize

\* C11: a successfully loaded value is stored if and only if neither the key
\* check (len(key) > maxKeySize > 0) nor the value check (a Sizer with
\* Size() >= maxValueSize > 0) rejects it; a rejected value is returned to the
\* caller and nothing is stored; a value that is no Sizer passes the value
\* check whatever its length.
C11_StoredIffAdmitted ==
  /\ [][\A p \in Procs :
          (pc[p] = "load" /\ pc'[p] # "load" /\ lerr'[p] = NilErr) =>
             IF KeyRejected(lkey[p]) \/ ValueRejected(loaded'[p])
             THEN /\ pc'[p] = "done" /\ ldata'[p] = loaded'[p]
                  /\ data' = data /\ evictList' = evictList
                  /\ currentSize' = currentSize
             ELSE pc'[p] = "set" /\ ldata'[p] = loaded'[p]]_vars
  /\ [][\A p \in Procs :
          (pc[p] = "set" /\ pc'[p] # "set") =>
             /\ lkey[p] \in data'
             /\ HeldValue(lkey[p])' = ldata[p]]_vars

\* C11 witness: a Get has returned a loaded Sizer value of exactly
\* maxValueSize, for a key of exactly maxKeySize, and the key is not stored
C11_Witness ==
  \E p \in Procs :
    /\ pc[p] = "done" /\ lerr[p] = NilErr /\ loads[p] = 1
    /\ maxKeySize > 0 /\ Len(lkey[p]) = maxKeySize
    /\ IsSizer(ldata[p]) /\ Size(ldata[p]) = maxValueSize
    /\ lkey[p] \notin data

\* C12: Invalidate(pred) removes exactly the held keys pred is true of: each
\* of them is absent afterwards (a read of it finds nothing, so a Get of it
\* loads), and every held key pred is false of is still held, with its value
\* and with the results of its reads unchanged.
C12_InvalidateRemovesExactlyMatching ==
  [][last'.op = "InvalidateFn" =>
       \A fn \in SUBSET Keys :
         LoadingCache_InvalidateFn(fn) =>
           /\ data' = {key \in data : key \notin fn}
           /\ \A key \in data \cap fn :
                 ~PeekReturn(key)'.ok /\ ~GetReturn(key)'.ok
           /\ \A key \in data \ fn :
                 /\ ItemOf(key)' = ItemOf(key)
                 /\ PeekReturn(key)' = PeekReturn(key)
                 /\ GetReturn(key)' = GetReturn(key)]_vars

\* C12 witness: an InvalidateFn has removed two keys and kept a third
C12_Witness ==
  /\ last.op = "InvalidateFn"
  /\ Cardinality(BagToSet(evicted)) = 2
  /\ Cardinality(data) = 1

\* C13: when Purge returns, with no other operation running, the cache holds
\* no keys, the byte counter is 0, and the lookup of a Get finds no key, so
\* the Get calls its loader.
C13_PurgeEmpties ==
  [][(pc["p1"] = "purge" /\ pc'["p1"] = "idle") =>
       /\ data' = {} /\ ItemCount(Engine)' = 0
       /\ currentSize' = 0
       /\ \A key \in LruKeys : ~Get(Engine, key)'.ok]_vars

\* C13 witness: Purge has called the engine's Purge in a cache that has
\* served hits, and is about to reset the byte counter
C13_Witness == pc["p1"] = "purge" /\ Hits > 0 /\ data = {}

\* The next statement of the operation goroutine p has started
StepOf(p) ==
  \/ LruCache_Get_hit(p)
  \/ \E v \in Values, err \in Errs : LruCache_Get_load(p, v, err)
  \/ LruCache_Get_set(p)
  \/ LruCache_Get_add(p)
  \/ LruCache_Get_check(p)
  \/ LruCache_Get_evict(p)
  \/ LruCache_Get_return(p)
  \/ LruCache_Purge_store(p)

\* C14: the loader runs with no cache lock held.  While the loader of a Get
\* runs, every cache operation (Get, Peek, Delete, Invalidate, Purge), called
\* by the loader itself or by another goroutine, can run, and the loader can
\* return; and no started operation ever waits: its next statement can
\* always be executed, so the outer Get completes.
C14_LoaderRunsUnlocked ==
  \A p \in Procs :
    /\ pc[p] = "load" =>
         /\ \A key \in LruKeys : ENABLED LruCache_Peek(key)
         /\ \A key \in LruKeys : ENABLED LruCache_Delete(key)
         /\ \A fn \in SUBSET LruKeys : ENABLED LruCache_Invalidate(fn)
         /\ \A q \in Procs \ {p} :
               pc[q] = "idle" =>
                 /\ ENABLED LruCache_Purge_backend(q)
                 /\ calls < MaxCalls =>
                      \A key \in LruKeys : ENABLED LruCache_Get_lookup(q, key)
    /\ pc[p] # "idle" => ENABLED StepOf(p)

\* C14 witness: the loader of a Get for a key is running and the key is
\* held: it was absent at the lookup, so another Get has stored it since
C14_Witness == \E p \in Procs : pc[p] = "load" /\ lkey[p] \in data

\* The list entries that hold key
EntriesOf(key) == {i \in 1..Len(evictList) : evictList[i].key = key}

\* Two Gets for the same key that both missed, loaded a value and had it
\* admitted, and have both finished
BothLoaded(p, q) ==
  /\ p # q
  /\ pc[p] = "done" /\ pc[q] = "done"
  /\ lkey[p] = lkey[q]
  /\ held[p] = Nil /\ held[q] = Nil
  /\ lerr[p] = NilErr /\ lerr[q] = NilErr
  /\ allowed(lkey[p], ldata[p]) /\ allowed(lkey[q], ldata[q])

\* C15: when Gets for the same missing key run concurrently, each calls its
\* own loader and returns its own loader's value, and once all have returned
\* the cache holds exactly one entry for the key, with the value one of them
\* has set (the one whose Set ran last).
C15_LastWriterHeld ==
  \A p, q \in Procs :
    BothLoaded(p, q) =>
      /\ loads[p] = 1 /\ loads[q] = 1
      /\ ldata[p] = loaded[p] /\ ldata[q] = loaded[q]
      /\ Cardinality(EntriesOf(lkey[p])) = 1
      /\ HeldValue(lkey[p]) \in {ldata[p], ldata[q]}

\* C16: with MaxCacheSize and Sizer values, under any interleaving of Gets
\* for distinct keys the byte counter is never negative, and once all Gets
\* have returned it is at most maxCacheSize.
C16_CounterWithinBounds ==
  /\ currentSize >= 0
  /\ Quiescent => currentSize <= maxCacheSize

\* C17: NewLruCache called with a negative MaxKeys, MaxKeySize, MaxValSize or
\* MaxCacheSize returns no cache and the error "failed to set cache option: "
\* followed by the option's reason, and has started no purger goroutine: an
\* argument list contains a negative option if and only if the call fails
\* this way.
NegativeOption == \E i \in DOMAIN opts : opts[i].max < 0
Reasons ==
  {"negative max value size", "negative max key size", "negative max keys",
   "negative max cache size"}
NoCacheReturned ==
  /\ data = {} /\ evictList = <<>> /\ purger = "none"
  /\ ~ENABLED CacheGets
C17_NegativeOptionFails ==
  [][NewLruCache_call =>
       IF NegativeOption
       THEN /\ \E reason \in Reasons : newErr' = "failed to set cache option: " \o reason
            /\ \E i \in DOMAIN opts :
                 /\ opts[i].max < 0
                 /\ \A j \in 1..(i - 1) : opts[j].max >= 0
                 /\ newErr' = "failed to set cache option: " \o OptionError(opts[i])
            /\ UNCHANGED <<engineOpts, data, evictList, done, purger>>
       ELSE newErr' = NilErr]_vars
  /\ [](newErr \notin {NotCalled, NilErr} => NoCacheReturned)
C17_Witness ==
  /\ newErr = "failed to set cache option: negative max cache size"
  /\ purger = "none"

\* C18: optionsFromQuery returns a non-nil error whenever a recognised
\* parameter has a value that cannot be parsed, with one error for every such
\* parameter; a parameter it does not know never causes an error.
Unparseable == {i \in DOMAIN Recognised :
                 query[Recognised[i]] # <<>> /\ Parse(Recognised[i], query[Recognised[i]]).err # NilErr}
C18_UnparseableReported ==
  errs.returned =>
    /\ (Unparseable # {} <=> ErrorOrNil(errs.Errors) # NilErr)
    /\ Len(errs.Errors) = Cardinality(Unparseable)

\* C19 as stated: Flush(req) deletes a cached key if and only if the key
\* parses to the partition of req and either req has no scopes or every
\* scope of req is one of the key's scopes.
Parsed(k) == parseKey(k).key
OfPartition(k, req) == parseKey(k).ok /\ Parsed(k).partition = req.partition
CarriesAll(k, req) ==
  \A i \in DOMAIN req.scopes :
    \E j \in DOMAIN Parsed(k).scopes : Parsed(k).scopes[j] = req.scopes[i]
CarriesOne(k, req) ==
  \E i \in DOMAIN req.scopes :
    \E j \in DOMAIN Parsed(k).scopes : Parsed(k).scopes[j] = req.scopes[i]
C19_FlushDeletesIffEveryScope ==
  [][\A req \in Flushers : Scache_Flush(req) =>
       \A k \in data :
         k \notin data' <=> (OfPartition(k, req) /\ (req.scopes = <<>> \/ CarriesAll(k, req)))]_vars

\* C19, amended: Flush(req) deletes a cached key if and only if the key
\* parses to the partition of req and either req has no scopes or at least
\* one scope of req is one of the key's scopes; it adds no key.  A flush that
\* deletes nothing is a step that changes nothing, so the keys a flush is
\* to delete are checked in every state as well.
C19_FlushDeletesIffSomeScope ==
  /\ [][\A req \in Flushers : Scache_Flush(req) =>
         /\ data' \subseteq data
         /\ \A k \in data :
              k \notin data' <=> (OfPartition(k, req) /\ (req.scopes = <<>> \/ CarriesOne(k, req)))]_vars
  /\ [](\A req \in Flushers, k \in data :
          k \in FlushKeys(data, req)
            <=> (OfPartition(k, req) /\ (req.scopes = <<>> \/ CarriesOne(k, req))))
\* the keys of the test after a flush of s1 and s2: key4 and key5, which
\* carry s2 but not s1, are gone
C19_Witness ==
  /\ calls = 0
  /\ data = {Key_String(TestKeys[6]), Key_String(TestKeys[7])}

\* C20: Flush with a non-empty scope list removes every key of the partition
\* that carries at least one requested scope and keeps every key of it that
\* carries none; of the seven keys of the test a flush of s1, s2, s3 leaves
\* the key without scopes alone, and every row of the test's table leaves
\* the number of keys the test expects.
SevenKeys == {Key_String(TestKeys[i]) : i \in DOMAIN TestKeys}
SharesScope(k, req) == ScopeSet(Parsed(k).scopes) \cap ScopeSet(req.scopes) # {}
C20_FlushRemovesAnyScope ==
  /\ [][\A req \in Flushers : (req.scopes # <<>> /\ Scache_Flush(req)) =>
         /\ \A k \in data : OfPartition(k, req) => (k \notin data' <=> SharesScope(k, req))
         /\ (data = SevenKeys /\ req = Flusher(site, <<s1, s2, s3>>))
              => data' = {Key_String(TestKeys[6])}
         /\ (data = SevenKeys /\ req.partition = site)
              => \A i \in DOMAIN TestTable :
                   TestTable[i].scopes = req.scopes => Cardinality(data') = TestTable[i].left]_vars
  /\ [](\A req \in Flushers, k \in data :
          (req.scopes # <<>> /\ OfPartition(k, req) /\ SharesScope(k, req))
            => k \in FlushKeys(data, req))
C20_Witness ==
  /\ calls = 0 /\ Misses = Len(TestKeys)
  /\ data = {Key_String(TestKeys[6])}

\* C21: for every key k built with NewKey(partition).ID(id).Scopes(...),
\* parseKey(k.String()) succeeds and gives the partition, id and scopes of k:
\* every string Scache.Get has stored parses back to the key it was built from.
BuiltKeys == ScopedKeys \cup {TestKeys[i] : i \in DOMAIN TestKeys}
BuiltFrom(str) == CHOOSE k \in BuiltKeys : Key_String(k) = str
C21_KeyRoundTrip ==
  \A str \in data : parseKey(str).ok /\ parseKey(str).key = BuiltFrom(str)

\* C22: when cache A evicts or deletes key k, every other cache on the bus
\* eventually removes k if it holds it and removes no other key; a cache
\* never removes a key in reaction to a message that carries its own id.
C22_BusRemovesKeyElsewhere ==
  /\ [][\A id \in CacheIds :
         (\E key \in BusKeys : BusCache_Get(id, key) \/ BusCache_Delete(id, key)) =>
           \A key \in nodes[id].data \ nodes'[id].data : \A to \in CacheIds :
             CopiesIn([to |-> to, fromID |-> id, key |-> key], fns')
               > CopiesIn([to |-> to, fromID |-> id, key |-> key], fns)]_vars
  /\ [][\A h \in Handlers : onBusEvent(h) =>
         /\ \A id \in CacheIds \ {h.to} : nodes'[id] = nodes[id]
         /\ IF h.fromID = h.to
            THEN nodes'[h.to] = nodes[h.to]
            ELSE nodes'[h.to].data = nodes[h.to].data \ {h.key}]_vars
  /\ \A h \in Handlers :
       (BagIn(h, fns) /\ h.fromID # h.to) ~> (h.key \notin nodes[h.to].data)
\* lc1 has dropped a key that lc2 held, and lc2 has deleted it in reaction
C22_Witness ==
  /\ evictions > 0 /\ busDeletes > 0
  /\ \E key \in BusKeys : key \notin nodes["lc1"].data /\ key \notin nodes["lc2"].data

\* C23 as stated: a delete made in reaction to a bus message publishes
\* nothing, so the messages published are as many as the evictions and
\* deletes that were not made in reaction to a message.
C23_PublishedEqualsLocalEvictions == Len(calledKeys) = evictions

\* C23, amended: a delete made in reaction to a bus message publishes one
\* message of its own, with the id of the cache that made it and the key it
\* deleted; the messages published are as many as the local evictions and
\* the deletes made in reaction to messages together.
C23_PublishedEqualsAllEvictions ==
  /\ [](Len(calledKeys) = evictions + busDeletes)
  /\ [][\A h \in Handlers : (onBusEvent(h) /\ nodes' # nodes) =>
         /\ calledKeys' = Append(calledKeys, h.key)
         /\ \A id \in CacheIds :
              CopiesIn([to |-> id, fromID |-> h.to, key |-> h.key], fns')
                > CopiesIn([to |-> id, fromID |-> h.to, key |-> h.key], fns)
                    - (IF id = h.to /\ h.fromID = h.to THEN 1 ELSE 0)]_vars
\* one eviction of lc1, and the delete lc2 made in reaction: two messages
C23_Witness ==
  /\ evictions = 1 /\ busDeletes = 1 /\ Len(calledKeys) = 2
  /\ fns = EmptyBag

\* C24: Keys() of an ExpirableCache lists exactly the keys it holds: a key
\* that a step removes (Delete, Invalidate, Purge) or that expires is not
\* listed after that step, and nothing is listed once every entry has expired.
C24_KeysAreHeldKeys ==
  [][/\ (HeldKeys \ HeldKeys') \cap ExpirableCache_Keys' = {}
     /\ (HeldKeys # {} /\ HeldKeys' = {}) => ExpirableCache_Keys' = {}]_vars

\* the keys whose item was made once, with a loader that succeeds, and has
\* neither expired nor been invalidated since
Undisturbed ==
  {k \in DOMAIN implData \ disturbed : ~heap[implData[k]].fun.fails}
InFlight(k) == {g \in Goroutines : gets[g].pc # "idle" /\ gets[g].key = k}
RECURSIVE CountMisses(_)
CountMisses(rs) ==
  IF rs = <<>> THEN 0 ELSE (IF Head(rs).miss THEN 1 ELSE 0) + CountMisses(Tail(rs))

\* C25: for a key whose Get calls, concurrent or not, met no expiry and no
\* invalidation, and whose loader succeeds: the loader is called once, by
\* the first call that reads the item; every call gets the value it loaded
\* and no error; one call is counted as a miss and every other as a hit.
C25_LoadedOnceForAll ==
  /\ \A k \in Undisturbed :
       LET ci == heap[implData[k]]
           read == {g \in InFlight(k) : gets[g].pc = "stat"}
       IN /\ loaderCalls[k] = IF read = {} /\ results[k] = <<>> THEN 0 ELSE 1
          /\ \A g \in read : gets[g].data = ci.fun.value /\ gets[g].err = NilErr
          /\ \A i \in DOMAIN results[k] :
               results[k][i].data = ci.fun.value /\ results[k][i].err = NilErr
          /\ CountMisses(results[k]) + Cardinality({g \in read : gets[g].called}) =
               loaderCalls[k]
          /\ (InFlight(k) = {} /\ results[k] # <<>>) => CountMisses(results[k]) = 1
  /\ stat.Misses = CountMisses(results["a"]) + CountMisses(results["bb"])
  /\ stat.Hits + stat.Misses = Len(results["a"]) + Len(results["bb"])
\* three calls for one key are in Get at once: one has loaded, one has read
\* what it loaded, one has still to read
C25_Witness ==
  \E k \in Undisturbed :
    /\ InFlight(k) = Goroutines
    /\ \E g1, g2, g3 \in Goroutines :
         /\ gets[g1].pc = "stat" /\ gets[g1].called
         /\ gets[g2].pc = "stat" /\ ~gets[g2].called
         /\ gets[g3].pc = "value"

NopGets == {i \in DOMAIN nopLog : nopLog[i].op = "Get"}

\* C26: the Nop cache stores nothing: every Get has called the loader it
\* was given and returned what that loader returned, whatever was called
\* before it; every Peek has reported not-found; size and keys are 0 after
\* every call, Invalidate and Purge included.
C26_NopStoresNothing ==
  /\ coldCalls = Cardinality(NopGets)
  /\ \A i \in NopGets :
       nopLog[i].val = nopLog[i].fn.value /\ nopLog[i].ok = ~nopLog[i].fn.fails
  /\ \A i \in DOMAIN nopLog :
       /\ nopLog[i].op = "Peek" => ~nopLog[i].ok /\ nopLog[i].val = Nil
       /\ nopLog[i].size = 0 /\ nopLog[i].keys = 0
\* a key is loaded, then loaded again with another result, then peeked
C26_Witness ==
  /\ Len(nopLog) = 3
  /\ nopLog[1].op = "Get" /\ nopLog[2].op = "Get" /\ nopLog[3].op = "Peek"
  /\ nopLog[1].key = nopLog[2].key /\ nopLog[2].key = nopLog[3].key
  /\ nopLog[1].val # nopLog[2].val /\ nopLog[1].ok /\ nopLog[2].ok

ListKeys == {evictList[i].key : i \in DOMAIN evictList}

\* C27: in the list-based engine, after every operation the map has as many
\* entries as the list has elements, every key of the map is the key of
\* exactly one list element, and every list element's key is in the map.
C27_MapAndListAgree ==
  /\ Cardinality(data) = Len(evictList)
  /\ \A key \in data : Cardinality({i \in DOMAIN evictList : evictList[i].key = key}) = 1
  /\ ListKeys \subseteq data
\* DeleteExpired has removed entries and left others
C27_Witness ==
  /\ last.op = "DeleteExpired" /\ evicted # EmptyBag /\ Len(evictList) >= 1

ExpiredKeys == {evictList[i].key : i \in {j \in DOMAIN evictList : Expired(evictList[j], now)}}
SelectLive(l) == SelectSeq(l, LAMBDA item : ~Expired(item, now))

\* C28: DeleteExpired, called or run by the purger, removes every entry
\* whose expiresAt has passed and no other, in LRU mode and in LRC mode: the
\* entries that are not expired stay as they are, in their order, and no
\* expired entry is left.
C28_DeleteExpiredIsExact ==
  /\ [][(LoadingCache_DeleteExpired \/ PurgerTick) =>
          /\ evictList' = SelectLive(evictList)
          /\ data' = data \ ExpiredKeys]_vars
  /\ [](last.op \in {"DeleteExpired", "tick"} => ExpiredKeys = {})
\* in LRU mode DeleteExpired has removed an entry and has left another
C28_Witness ==
  /\ isLRU /\ last.op = "DeleteExpired" /\ evicted # EmptyBag
  /\ Len(evictList) >= 1 /\ maxKeys = 0

\* C29: in LRC mode the list is sorted by expiresAt: from the back to the
\* front expiresAt never decreases, so no expired entry is in front of one
\* that is not expired.
C29_ListSortedByExpiresAt ==
  ~isLRU =>
    /\ \A i, j \in DOMAIN evictList :
         i < j => evictList[i].expiresAt >= evictList[j].expiresAt
    /\ \A i, j \in DOMAIN evictList :
         (i < j /\ Expired(evictList[i], now)) => Expired(evictList[j], now)
\* in LRC mode a Set has put an entry in front of one that expires earlier
\* and of one that was set at the same time
C29_Witness ==
  /\ ~isLRU /\ last.op = "Set" /\ Len(evictList) = 3
  /\ evictList[1].expiresAt = evictList[2].expiresAt
  /\ evictList[2].expiresAt > evictList[3].expiresAt

\* C30: Set on a key that is stored replaces its value, sets its expiresAt
\* to now + ttl and moves it to the front of the list, in LRU mode and in
\* LRC mode; the other entries stay as they are, in their order, nothing is
\* removed and the number of entries stays the same.
C30_SetOnStoredKey ==
  [][\A key \in Keys, value \in EngineValues :
       (key \in data /\ LoadingCache_Set(key, value)) =>
         /\ evictList' = <<[key |-> key, value |-> value, expiresAt |-> now + ttl]>>
                            \o SelectSeq(evictList, LAMBDA item : item.key # key)
         /\ data' = data
         /\ Len(evictList') = Len(evictList)
         /\ evicted' = EmptyBag]_vars
\* a cache full at MaxKeys after a Set that removed nothing, with the key
\* that was set in front, fresher than the entry behind it
C30_Witness ==
  /\ last.op = "Set" /\ maxKeys = 2 /\ Len(evictList) = 2 /\ evicted = EmptyBag
  /\ evictList[1].key = last.key /\ evictList[1].value = last.val
  /\ evictList[1].expiresAt = now + ttl
  /\ evictList[2].expiresAt < evictList[1].expiresAt

\* the engine apart from the record of the latest call
EngineState == <<engineOpts, data, evictList, done, purger, panicked, now>>
\* the entry RemoveOldest would remove
NextEvicted(l) == IF l = <<>> THEN NoKey ELSE Back(l).key

\* C31: Peek changes nothing of the engine; Get changes the list only in LRU
\* mode and only on a hit, which moves the entry that was read to the front,
\* where it is the last to be evicted; in LRC mode no read changes which
\* entry is evicted next; no read removes an entry or calls onEvicted.
C31_ReadsAndOrder ==
  [][\A key \in Keys :
       /\ LoadingCache_Peek(key) => UNCHANGED EngineState /\ evicted' = EmptyBag
       /\ LoadingCache_Get(key) =>
            /\ UNCHANGED <<engineOpts, data, done, purger, panicked, now>>
            /\ evicted' = EmptyBag
            /\ IF isLRU /\ last'.ok
               THEN /\ evictList' = MoveToFront(evictList, Elem(Engine, key))
                    /\ Len(evictList) > 1 => NextEvicted(evictList') # key
               ELSE evictList' = evictList
            /\ ~isLRU => NextEvicted(evictList') = NextEvicted(evictList)]_vars
\* in LRU mode a Get has moved an entry in front of one that was set later
C31_Witness ==
  /\ isLRU /\ last.op = "Get" /\ last.ok /\ Len(evictList) >= 2
  /\ evictList[1].key = last.key
  /\ evictList[1].expiresAt < evictList[2].expiresAt

InGet(p) == pc[p] \in {"hit", "load", "set", "add", "check", "evict", "done"}

\* C32: every LruCache.Get call returns: the loop that calls RemoveOldest
\* while currentSize > maxCacheSize ends, for any value sizes and under any
\* interleaving of concurrent Get, Delete and Purge calls.
C32_GetReturns == \A p \in Procs : InGet(p) ~> (pc[p] = "idle")

\* C33: after Close the purger goroutine exits in the end (unless a second
\* Close has panicked and ended the program); once it has exited it makes no
\* sweep and never runs again.
C33_PurgerExitsAfterClose ==
  /\ (done = "closed" /\ purger = "running") ~> (purger = "exited" \/ panicked)
  /\ [][/\ purger = "exited" => purger' = "exited"
        /\ PurgerTick => purger' = "running" /\ purger = "running"]_vars
\* the purger has exited after a sweep that removed an entry, and entries
\* are left that it will not sweep
C33_Witness ==
  /\ purger = "exited" /\ done = "closed" /\ ~panicked
  /\ \E i \in DOMAIN evictList : Expired(evictList[i], now)

ExpiredEntries ==
  {[key |-> evictList[i].key, value |-> evictList[i].value] :
     i \in {j \in DOMAIN evictList : Expired(evictList[j], now)}}

\* C34: while the purger runs and the cache is not closed, an entry whose
\* TTL has elapsed is removed in the end without any call on its key (or
\* has been renewed by a Set); the sweep that removes it takes every expired
\* entry from the map and the list and reports each through onEvicted.
C34_PurgerRemovesExpired ==
  /\ \A key \in Keys :
       (done = "open" /\ purger = "running" /\ key \in ExpiredKeys)
         ~> (key \notin ExpiredKeys \/ done = "closed")
  /\ [][PurgerTick =>
          /\ data' = data \ ExpiredKeys
          /\ evictList' = SelectLive(evictList)
          /\ onEvicted => evicted' = SetToBag(ExpiredEntries)]_vars
\* a sweep of the purger has removed an entry of a cache that is open
C34_Witness ==
  /\ last.op = "tick" /\ evicted # EmptyBag /\ done = "open" /\ purger = "running"

\* =================================================================
\* v2/internal/cache: the engine that keeps its entries in a map only
\* (src/v2/internal/cache/cache.go).  Its fields ttl, maxKeys, onEvicted,
\* purgeEvery and done are the engine's; data is v2data, a function from the
\* keys held to [data, expiresAt].
\* =================================================================

V2Values == EngineValues

\* the callback made for an entry, when there is one
V2Callback(key, value) ==
  IF onEvicted THEN SetToBag({[key |-> key, value |-> value]}) ELSE EmptyBag

\* purge, lines 213-229: the range loop, visiting the map in the given order.
\* An expired entry is deleted; then, with the map still above maxKeys, the
\* entry of key is read again from the map (line 224): a nil *cacheItem once
\* key has been deleted, and dereferencing it panics.
RECURSIVE purgeRange(_, _, _, _, _, _)
purgeRange(m, order, i, kts, ev, mk) ==
  IF i > Len(order) THEN [data |-> m, kts |-> kts, ev |-> ev, panic |-> FALSE]
  ELSE LET key == order[i]
           expired == now > m[key].expiresAt
           m1 == IF expired THEN MapDelete(m, key) ELSE m
           ev1 == IF expired THEN ev (+) V2Callback(key, m[key].data) ELSE ev
       IN IF mk > 0 /\ Cardinality(DOMAIN m1) > mk
          THEN IF key \notin DOMAIN m1
               THEN [data |-> m1, kts |-> kts, ev |-> ev1, panic |-> TRUE]
               ELSE purgeRange(m1, order, i + 1, kts \cup {key}, ev1, mk)
          ELSE purgeRange(m1, order, i + 1, kts, ev1, mk)

\* the callbacks made for the keys of S
RECURSIVE V2Callbacks(_, _)
V2Callbacks(m, S) ==
  IF S = {} THEN EmptyBag
  ELSE LET k == CHOOSE x \in S : TRUE
       IN V2Callback(k, m[k].data) (+) V2Callbacks(m, S \ {k})

\* purge, lines 232-245: size eviction.  r is what the range loop left; the
\* size - maxKeys first keys of the sorted kts are deleted (sort.Slice is not
\* stable, so among equal timestamps any may come first).  An index beyond
\* kts panics.
purgeSize(r, mk) ==
  LET m == r.data
      n == Cardinality(DOMAIN m) - mk
  IN IF r.panic \/ r.kts = {} \/ n <= 0 THEN {[data |-> m, ev |-> r.ev, panic |-> r.panic]}
     ELSE IF n > Cardinality(r.kts)
     THEN {[data |-> [k \in DOMAIN m \ r.kts |-> m[k]],
            ev |-> r.ev (+) V2Callbacks(m, r.kts), panic |-> TRUE]}
     ELSE {[data |-> [k \in DOMAIN m \ S |-> m[k]],
            ev |-> r.ev (+) V2Callbacks(m, S), panic |-> FALSE] :
           S \in {T \in SUBSET r.kts :
                    /\ Cardinality(T) = n
                    /\ \A s \in T, t \in r.kts \ T :
                         m[s].expiresAt <= m[t].expiresAt}}

\* purge(maxKeys), lines 210-246: every outcome it can have on the map m
purge(m, mk) ==
  UNION {purgeSize(purgeRange(m, order, 1, {}, EmptyBag, mk), mk) :
         order \in RangeOrders(DOMAIN m)}

\* NewLoadingCache, lines 30-64: the purger is started with maxKeys or
\* purgeEvery set, whatever the TTL
InitV2 ==
  /\ \E t \in {1, noEvictionTTL} :
       /\ ttl = t /\ maxKeys = V2MaxKeys /\ isLRU = FALSE /\ onEvicted = TRUE
       /\ purgeEvery = 0
  /\ data = {} /\ evictList = <<>>
  /\ done = "open" /\ purger = "running" /\ panicked = FALSE /\ now = 0
  /\ evicted = EmptyBag /\ last = NoCall
  /\ maxKeySize = 0 /\ maxValueSize = 0 /\ maxCacheSize = 0
  /\ opts = <<>> /\ newErr = NilErr /\ query = NoQuery /\ errs = NoErrs /\ NoBus
  /\ NoExp /\ NoImpl /\ NoNop /\ NoRanging /\ NoList
  /\ v2data = <<>>
  /\ Hits = 0 /\ Misses = 0 /\ Errors = 0 /\ currentSize = 0
  /\ pc = [p \in Procs |-> "idle"]
  /\ lkey = [p \in Procs |-> NoKey]
  /\ ldata = [p \in Procs |-> Nil]
  /\ lerr = [p \in Procs |-> NilErr]
  /\ held = [p \in Procs |-> Nil]
  /\ loaded = [p \in Procs |-> Nil]
  /\ loads = [p \in Procs |-> 0]
  /\ calls = 0

V2Unchanged ==
  UNCHANGED <<engineOpts, data, evictList,
              maxKeySize, maxValueSize, maxCacheSize, opts, newErr, query, errs,
              busVars, expVars, implVars, nopVars, ranging, list, stats,
              currentSize, locals, calls>>

\* a call under the mutex ends with the outcome r of purge, or without purge
V2Commit(r, call) ==
  /\ v2data' = r.data
  /\ evicted' = r.ev
  /\ panicked' = r.panic
  /\ last' = call
  /\ UNCHANGED <<done, purger, now>>
  /\ V2Unchanged

\* Set, lines 67-84; `ok` of the call notes whether purge was run
V2_Set(key, value) ==
  /\ ~panicked
  /\ LET m == [k \in DOMAIN v2data \cup {key} |->
                 IF k = key THEN [data |-> value, expiresAt |-> now + ttl]
                 ELSE v2data[k]]
         forced == maxKeys > 0 /\ Cardinality(DOMAIN m) >= maxKeys * 2
     IN \E r \in IF forced THEN purge(m, maxKeys)
                 ELSE {[data |-> m, ev |-> EmptyBag, panic |-> FALSE]} :
          V2Commit(r, [op |-> "Set", key |-> key, val |-> value, ok |-> forced])

\* getValue, lines 148-159
V2_getValue(m, key) ==
  IF key \in DOMAIN m /\ ~(now > m[key].expiresAt)
  THEN [val |-> m[key].data, ok |-> TRUE]
  ELSE [val |-> Nil, ok |-> FALSE]

\* Get, lines 87-96
V2_Get(key) ==
  /\ ~panicked
  /\ LET r == V2_getValue(v2data, key) IN
     V2Commit([data |-> v2data, ev |-> EmptyBag, panic |-> FALSE],
              [op |-> "Get", key |-> key, val |-> r.val, ok |-> r.ok])

\* Invalidate, lines 111-120
V2_Invalidate(key) ==
  /\ ~panicked
  /\ key \in DOMAIN v2data
  /\ V2Commit([data |-> MapDelete(v2data, key),
               ev |-> V2Callback(key, v2data[key].data), panic |-> FALSE],
              [op |-> "Invalidate", key |-> key, val |-> Nil, ok |-> TRUE])

\* DeleteExpired, lines 174-178: purge(0)
V2_DeleteExpired ==
  /\ ~panicked
  /\ \E r \in purge(v2data, 0) :
       V2Commit(r, [op |-> "DeleteExpired", key |-> NoKey, val |-> Nil, ok |-> TRUE])

\* Close, lines 189-199: closing a closed cache does nothing
V2_Close ==
  /\ ~panicked
  /\ done' = "closed"
  /\ evicted' = EmptyBag
  /\ last' = [op |-> "Close", key |-> NoKey, val |-> Nil, ok |-> done = "open"]
  /\ UNCHANGED <<v2data, purger, panicked, now>>
  /\ V2Unchanged

\* the purger goroutine, lines 49-61: a tick runs purge(maxKeys) under the mutex
V2_PurgerTick ==
  /\ ~panicked
  /\ purger = "running"
  /\ \E r \in purge(v2data, maxKeys) :
       V2Commit(r, [op |-> "tick", key |-> NoKey, val |-> Nil, ok |-> TRUE])

\* the purger goroutine returns once done is closed
V2_PurgerExit ==
  /\ ~panicked
  /\ purger = "running"
  /\ done = "closed"
  /\ purger' = "exited"
  /\ evicted' = EmptyBag
  /\ last' = [op |-> "exit", key |-> NoKey, val |-> Nil, ok |-> FALSE]
  /\ UNCHANGED <<v2data, done, panicked, now>>
  /\ V2Unchanged

\* time passes
V2_Tick ==
  /\ ~panicked
  /\ ttl # noEvictionTTL
  /\ now < MaxTime
  /\ now' = now + 1
  /\ evicted' = EmptyBag
  /\ last' = [op |-> "time", key |-> NoKey, val |-> Nil, ok |-> FALSE]
  /\ UNCHANGED <<v2data, done, purger, panicked>>
  /\ V2Unchanged

NextV2 ==
  \/ \E key \in V2Keys, value \in V2Values : V2_Set(key, value)
  \/ \E key \in V2Keys : V2_Get(key)
  \/ \E key \in V2Keys : V2_Invalidate(key)
  \/ V2_DeleteExpired
  \/ V2_Close
  \/ V2_PurgerTick
  \/ V2_PurgerExit
  \/ V2_Tick

SpecV2 == InitV2 /\ [][NextV2]_vars

\* the entries of the map that have expired
V2Expired == {k \in DOMAIN v2data : now > v2data[k].expiresAt}

\* a call that ran purge(maxKeys): a tick, or a Set that found 2N entries
V2Purged == last.op = "tick" \/ (last.op = "Set" /\ last.ok)

\* C35 (as stated): with maxKeys = N > 0 every run of purge(N), by the ticker
\* or forced by Set at 2N entries, completes normally (no panic) and leaves at
\* most N entries, none of them expired
C35_PurgeCompletesWithinN ==
  /\ ~panicked
  /\ V2Purged => Cardinality(DOMAIN v2data) <= maxKeys /\ V2Expired = {}

\* no call of the loadingCacheImpl is in progress
ImplIdle == \A g \in Goroutines : gets[g].pc = "idle"

\* C36 (as stated): for loadingCacheImpl, whenever no operation is in
\* progress Stat().Size equals the number of records in the cache, also right
\* after Invalidate or InvalidateFn has removed records
C36_SizeIsRecordCount ==
  ImplIdle => stat.Size = Cardinality(DOMAIN implData)

\* a step that runs purge(maxKeys): a tick of the purge goroutine, or the end
\* of a Get that finds twice maxKeys records
ImplPurgeRan ==
  \/ loadingCacheImpl_purger
  \/ \E g \in Goroutines :
       /\ Cardinality(DOMAIN implData) >= maxKeys * 2
       /\ loadingCacheImpl_Get_stat(g)

\* C37 (as stated): for loadingCacheImpl without Invalidate and InvalidateFn,
\* Stat().Added - Stat().Evicted is the number of records whenever no
\* operation is in progress (every record purge removes, by TTL or by size,
\* is counted in Evicted exactly once), and after a purge with maxKeys > 0 at
\* most maxKeys records remain
C37_AddedMinusEvictedIsCount ==
  /\ [](ImplIdle => stat.Added - stat.Evicted = Cardinality(DOMAIN implData))
  /\ [][ImplPurgeRan => Cardinality(DOMAIN implData') <= maxKeys]_vars

\* what a call of the loader f returns
LoaderResult(f) ==
  [data |-> f.value, err |-> IF f.fails THEN LoaderErr ELSE NilErr]

\* C38 (as stated): for loadingCacheImpl, whenever Get(key, ttl, f) has to
\* load a value, the key being absent or its record expired and not yet
\* purged, the value it returns is produced by calling f, the loader passed to
\* that same call
C38_LoadedByOwnLoader ==
  \A g \in Goroutines :
    (gets[g].pc = "stat" /\ gets[g].called) =>
      /\ gets[g].data = LoaderResult(gets[g].f).data
      /\ gets[g].err = LoaderResult(gets[g].f).err

\* C39 (as stated): ExpirableCache is safe for concurrent callers: under any
\* interleaving of Get, Invalidate and Keys calls no two goroutines access the
\* keysStorage map at the same time when one of them writes to it
C39_KeysStorageAccessExclusive ==
  \A p \in Procs : pc[p] = "store" => ~OthersInKeysStorage(p)

\* =================================================================
\* The doubly-linked list embedded in the cacheItems (list.go of the engine
\* that links its entries directly): a ring through the sentinel root.
\* A *cacheItem is an address: RootPtr for &l.root, an element, or NilPtr.
\* =================================================================
ListElems == {"e1", "e2", "e3"}
RootPtr == "root"
NilPtr == "nil"
Ptrs == ListElems \cup {RootPtr}

\* a zero cacheItem
ZeroItem == [next |-> NilPtr, prev |-> NilPtr, list |-> NilPtr]

\* Init, lines 31-36
list_Init(l) ==
  [items |-> [l.items EXCEPT ![RootPtr].next = RootPtr, ![RootPtr].prev = RootPtr],
   len |-> 0]

\* lazyInit, lines 54-58
lazyInit(l) == IF l.items[RootPtr].next = NilPtr THEN list_Init(l) ELSE l

\* insert(e, at), lines 61-69, one assignment after the other
insert(l, e, at) ==
  LET n == l.items[at].next
      i1 == [l.items EXCEPT ![at].next = e]
      i2 == [i1 EXCEPT ![e].prev = at]
      i3 == [i2 EXCEPT ![e].next = n]
      i4 == [i3 EXCEPT ![n].prev = e]
      i5 == [i4 EXCEPT ![e].list = RootPtr]
  IN [items |-> i5, len |-> l.len + 1]

\* remove(e), lines 77-85
remove(l, e) ==
  LET i1 == [l.items EXCEPT ![l.items[e].prev].next = l.items[e].next]
      i2 == [i1 EXCEPT ![i1[e].next].prev = i1[e].prev]
      i3 == [i2 EXCEPT ![e] = ZeroItem]
  IN [items |-> i3, len |-> l.len - 1]

\* move(e, at), lines 88-102
move(l, e, at) ==
  IF e = at THEN l
  ELSE LET i1 == [l.items EXCEPT ![l.items[e].prev].next = l.items[e].next]
           i2 == [i1 EXCEPT ![i1[e].next].prev = i1[e].prev]
           n == i2[at].next
           i3 == [i2 EXCEPT ![at].next = e]
           i4 == [i3 EXCEPT ![e].prev = at]
           i5 == [i4 EXCEPT ![e].next = n]
           i6 == [i5 EXCEPT ![n].prev = e]
       IN [items |-> i6, len |-> l.len]

\* Remove(e), lines 107-114: e.list == l
list_Remove(l, e) == IF l.items[e].list = RootPtr THEN remove(l, e) ELSE l

\* PushFront(c), lines 117-120
list_PushFront(l, c) == insert(lazyInit(l), c, RootPtr)

\* MoveToFront(e), lines 125-131
list_MoveToFront(l, e) ==
  IF l.items[e].list # RootPtr \/ l.items[RootPtr].next = e THEN l
  ELSE move(l, e, RootPtr)

\* the elements met from the sentinel by next (or by prev) until the sentinel
\* is met again, at most n of them; a nil pointer ends the walk with NilPtr
RECURSIVE Walk(_, _, _, _)
Walk(l, from, forward, n) ==
  LET p == IF forward THEN l.items[from].next ELSE l.items[from].prev
  IN IF p = RootPtr THEN <<>>
     ELSE IF p = NilPtr \/ n = 0 THEN <<NilPtr>>
     ELSE <<p>> \o Walk(l, p, forward, n - 1)

Forward(l) == Walk(l, RootPtr, TRUE, Cardinality(ListElems))
Backward(l) == Walk(l, RootPtr, FALSE, Cardinality(ListElems))
Reverse(s) == [i \in 1..Len(s) |-> s[Len(s) + 1 - i]]
InList(l, e) == \E i \in 1..Len(Forward(l)) : Forward(l)[i] = e

\* newList(), line 39, and elements that were never in a list
InitList ==
  /\ ttl = 0 /\ maxKeys = 0 /\ isLRU = FALSE
  /\ onEvicted = FALSE /\ purgeEvery = 0
  /\ data = {} /\ evictList = <<>>
  /\ done = "open" /\ purger = "none" /\ panicked = FALSE /\ now = 0
  /\ evicted = EmptyBag /\ last = NoCall
  /\ maxKeySize = 0 /\ maxValueSize = 0 /\ maxCacheSize = 0
  /\ opts = <<>> /\ newErr = NilErr /\ query = NoQuery /\ errs = NoErrs /\ NoBus
  /\ NoExp /\ NoImpl /\ NoNop /\ NoRanging
  /\ v2data = <<>>
  /\ list = list_Init([items |-> [p \in Ptrs |-> ZeroItem], len |-> 0])
  /\ Hits = 0 /\ Misses = 0 /\ Errors = 0 /\ currentSize = 0
  /\ pc = [p \in Procs |-> "idle"]
  /\ lkey = [p \in Procs |-> NoKey]
  /\ ldata = [p \in Procs |-> Nil]
  /\ lerr = [p \in Procs |-> NilErr]
  /\ held = [p \in Procs |-> Nil]
  /\ loaded = [p \in Procs |-> Nil]
  /\ loads = [p \in Procs |-> 0]
  /\ calls = 0

\* a call on the list; `ok` of the call notes whether e was in the list
ListCall(l, op, e) ==
  /\ list' = l
  /\ last' = [op |-> op, key |-> e, val |-> Nil, ok |-> InList(list, e)]
  /\ UNCHANGED <<engineOpts, data, evictList, done, purger, panicked, now, evicted,
                 maxKeySize, maxValueSize, maxCacheSize, opts, newErr, query, errs,
                 busVars, expVars, implVars, nopVars, v2data, ranging, stats,
                 currentSize, locals, calls>>

\* PushFront of an element that is not in the list
ListPushFront(e) ==
  /\ ~InList(list, e)
  /\ ListCall(list_PushFront(list, e), "PushFront", e)

ListMoveToFront(e) ==
  /\ e \in ListElems
  /\ ListCall(list_MoveToFront(list, e), "MoveToFront", e)

ListRemove(e) ==
  /\ e \in ListElems
  /\ ListCall(list_Remove(list, e), "Remove", e)

ListInit ==
  /\ last.op # "Init"
  /\ ListCall(list_Init(list), "Init", NoKey)

NextList ==
  \/ \E e \in ListElems : ListPushFront(e)
  \/ \E e \in ListElems : ListMoveToFront(e)
  \/ \E e \in ListElems : ListRemove(e)
  \/ ListInit

SpecList == InitList /\ [][NextList]_vars

\* the list is a ring through the sentinel: next leads from the sentinel
\* through elements back to it, prev leads back the same way, and len counts
\* the elements on the way
WellFormed(l) ==
  /\ \A i \in 1..Len(Forward(l)) : Forward(l)[i] \in ListElems
  /\ Backward(l) = Reverse(Forward(l))
  /\ l.len = Len(Forward(l))

\* C40 (as stated): after any sequence of PushFront (of an element not in the
\* list), MoveToFront, Remove and Init the list is a well-formed ring through
\* the sentinel: Len is the number of elements reachable from the sentinel,
\* forward and backward walks visit the same elements in opposite order, and
\* MoveToFront or Remove of an element not in the list leaves the list unchanged
C40_ListIsWellFormedRing ==
  /\ [](WellFormed(list))
  /\ [][\A e \in ListElems :
          (~InList(list, e) /\ (ListMoveToFront(e) \/ ListRemove(e)))
            => /\ Forward(list') = Forward(list)
               /\ list'.len = list.len]_vars

====
